---- MODULE Spec2Model ----
(***************************************************************************)
(* Camera capture / monitoring core of blue-archive-watcher:               *)
(*   app/services/frame_bus.py            FrameQueue (frame bus)           *)
(*   app/services/monitor_pipeline.py     FrameQueue (legacy ring buffer)  *)
(*   app/services/monitor_state_machine.py MonitoringStateMachine          *)
(*   app/services/monitor_service.py      arbiter, config ladder, captures,*)
(*                                        MonitorService.run / stop        *)
(***************************************************************************)
EXTENDS Integers, Sequences, FiniteSets, TLC

\* ------------------------------------------------------------------------
\* Bounds of the model
\* ------------------------------------------------------------------------
MaxCalls == 6      \* state-machine calls made by the harness
MaxDim == 3        \* distinct widths / heights / fps values requested
MaxCap == 3        \* largest maxlen a frame queue is constructed with
MaxPuts == 5       \* packets put on one frame queue
MaxOps == 3        \* gets / clears / peeks made on one frame queue
MaxArbCalls == 2   \* arbiter calls made by each role
MaxTime == 2       \* clock ticks
MaxRuns == 1       \* times the monitor thread is started
MaxGuiOps == 2     \* calls made by the GUI thread
MaxErrLines == 1   \* ERROR lines one capture writes to stderr
MaxPreviewOps == 1 \* preview calls made by the GUI thread
MaxRefCalls == 5   \* ensure / release calls made on the capture singletons
MaxLockCalls == 2  \* calls made by each thread of the lock model
MaxWrites == 4    \* debug images written
MaxSize == 2      \* largest size_bytes of one debug image
MaxFrac == 2      \* largest sub-second part of a timestamp
MaxRoi == 3       \* region-of-interest origins 0, 4, .. 4 * MaxRoi
MaxLoc == 2       \* peak locations 0, 5, .. 5 * MaxLoc
MaxEvals == 2     \* evaluate_frame calls made on one frame
MaxStopCalls == 2 \* stop() calls made on one capture supervisor
MaxFrames == 4    \* frames evaluated with one DetectorState
MaxGap == 4       \* clock ticks between two evaluated frames
MaxConsumers == 2 \* threads calling get on one frame queue
MaxWait == 2      \* largest get timeout, in clock ticks

None == <<>>
Some(v) == <<v>>

Max(a, b) == IF a >= b THEN a ELSE b
Min(a, b) == IF a <= b THEN a ELSE b

VARIABLES
    \* MonitoringStateMachine driven call by call
    smState,        \* MonitoringStateMachine._state
    smLast,         \* the last call: [op, from, err]
    smCalls,        \* number of calls made
    \* _build_monitoring_config_ladder applied to a request
    ladIn,          \* [width, height, fps, is_virtual]
    ladOut,         \* the returned list of CaptureConfig
    ladDone,        \* the function has returned
    \* the debug_entries table under _save_debug_image_if_allowed
    dbg,            \* [rows, removed, clock, max_bytes, max_count, next_id]
    \* evaluate_frame applied to one frame
    det,            \* [input, result, done, calls]
    \* one FfmpegCaptureSupervisor and its child process
    sup,            \* [process, terminated, killed, _stop, reader, stderr, pc, calls, trace]
    \* one DetectorState carried through a sequence of evaluate_frame calls
    seq,            \* [state, now, frames, before, result, debug, warnings, streak]
    \* one FrameQueue
    bq_impl,            \* "frame_bus" | "monitor_pipeline"
    bq_policy,          \* FrameQueue.policy
    bq_maxlen,          \* FrameQueue.maxlen
    bq_queue,           \* FrameQueue._queue, oldest first
    bq_dropped_frames,  \* FrameQueue.dropped_frames
    bq_dropped,         \* FrameQueue.dropped
    bq_stale,           \* FrameQueue.stale
    bq_puts,            \* packets put so far (packet k is the k-th put)
    bq_ops,             \* gets / clears / peeks / sizes made so far
    bq_removed,         \* a get or a clear has been made
    bq_last,            \* the last call: [op, ret, before]
    bq_gets,            \* concurrent get calls: [cons, taken, last]
    \* camera ownership arbiter (module globals of monitor_service.py)
    _ACTIVE_OWNER_PIPELINE,     \* None or Some(role)
    _ACTIVE_CAMERA_TOKEN,       \* None or Some(token)
    _LAST_CAMERA_RELEASE_AT,    \* time of the last effective release
    _CAMERA_OWNER_LOCK,         \* None or Some(role holding the lock)
    now,                        \* time.time()
    \* two callers of the arbiter, one per role
    arb_pc,         \* role -> position inside the call
    arb_arg,        \* role -> token passed to the call in progress
    arb_hist,       \* role -> completed calls: [op, token, ok]
    arb_wake,       \* role -> time at which the cooldown sleep in progress ends
    arb_released,   \* token -> time of the last effective release of it (0: none)
    \* callers of _ensure_global_capture / _release_global_capture
    ref_hist,       \* completed calls: [op, token, config, ret, users]
    \* threads calling the module functions, seen by the locks they take
    lk,             \* thread -> [prog: lock events left of the call, calls: calls made]
    \* threads: "mon" executes MonitorService.run, "gui" calls stop() and
    \* the preview functions
    pc,             \* thread -> position
    \* MonitorService fields
    svc_state,              \* self._state (MonitoringStateMachine._state)
    _stop_event,            \* self._stop_event
    _capture,               \* self._capture: None or Some(capture id)
    _capture_acquired,      \* self._capture_acquired
    running,                \* self.running
    _processing_thread,     \* self._processing_thread is a live thread
    monitoring_active,      \* app_state.monitoring_active
    status_log,             \* values emitted on MonitorService.status
    state_log,              \* values emitted on MonitorService.state_changed
    \* locals of run()
    attempt,                \* loop variable of the retry loop
    failed,
    failure_reason,         \* [text, cap, line]
    cap,                    \* capture returned by _ensure_global_capture
    exc,                    \* exception being raised
    mon_in,                 \* candidate resolved by run(): [token, is_virtual]
    stored_camera,          \* the profile has a stored camera selection
    \* locals of stop(), per calling thread
    stop_arg,               \* thread -> [clear_queue, emit_status]
    \* monitoring capture globals
    _GLOBAL_CAPTURE,
    _GLOBAL_USERS,
    _GLOBAL_INPUT_TOKEN,
    _GLOBAL_CONFIG,
    _GLOBAL_LOCK,
    \* preview capture globals
    _PREVIEW_CAPTURE,
    _PREVIEW_INPUT_TOKEN,
    _PREVIEW_CONFIG,
    _PREVIEW_PAUSED_FOR_MONITORING,
    _PREVIEW_RESTARTED,     \* _PREVIEW_LAST_RESTART_AT has been set
    _PREVIEW_STATIC_FRAME,  \* a snapshot frame is stored
    _PREVIEW_LOCK,
    \* capture objects and the one-frame snapshot process
    caps,                   \* capture id -> [pipeline, token, alive, stop_calls, last_error, log_events]
    snap_alive,             \* capture_single_frame_by_token is running ffmpeg
    \* the GUI thread
    gui_op,                 \* call in progress
    gui_arg,                \* [token, is_virtual, attempt]
    gui_ret,                \* last preview call returned: [op, ok, reason, paused]
    gui_hist,               \* completed stop() calls: [entry, cap, acquired, effect]
    gui_ops,                \* calls made
    runs                    \* times the monitor thread was started

smVars == <<smState, smLast, smCalls>>
ladVars == <<ladIn, ladOut, ladDone, dbg, det, sup, seq>>
busVars == <<bq_impl, bq_policy, bq_maxlen, bq_queue, bq_dropped_frames,
             bq_dropped, bq_stale, bq_puts, bq_ops, bq_removed, bq_last, bq_gets>>
ownerVars == <<_ACTIVE_OWNER_PIPELINE, _ACTIVE_CAMERA_TOKEN, _LAST_CAMERA_RELEASE_AT,
               _CAMERA_OWNER_LOCK, now>>
arbVars == <<arb_pc, arb_arg, arb_hist, arb_wake, arb_released, ref_hist, lk>>
svcVars == <<svc_state, _stop_event, _capture, _capture_acquired, running,
             _processing_thread, monitoring_active, status_log, state_log>>
runVars == <<attempt, failed, failure_reason, cap, exc, mon_in, stored_camera>>
globalVars == <<_GLOBAL_CAPTURE, _GLOBAL_USERS, _GLOBAL_INPUT_TOKEN, _GLOBAL_CONFIG, _GLOBAL_LOCK>>
previewVars == <<_PREVIEW_CAPTURE, _PREVIEW_INPUT_TOKEN, _PREVIEW_CONFIG,
                 _PREVIEW_PAUSED_FOR_MONITORING, _PREVIEW_RESTARTED, _PREVIEW_STATIC_FRAME,
                 _PREVIEW_LOCK>>
capVars == <<caps, snap_alive>>
guiVars == <<gui_op, gui_arg, gui_ret, gui_hist, gui_ops, runs>>
monVars == <<pc, svcVars, runVars, stop_arg, globalVars, previewVars, capVars, guiVars>>
vars == <<smVars, ladVars, busVars, ownerVars, arbVars, monVars>>

\* ========================================================================
\* monitor_state_machine.py
\* ========================================================================
MonitoringState == {"IDLE", "STARTING", "RUNNING", "FAILED", "STOPPING"}

\* MonitoringStateMachine._transition: raise InvalidTransition (err) and
\* leave _state alone unless the current state is one of `expected`.
_transition(cur, expected, new_state) ==
    IF cur \notin expected
        THEN [state |-> cur, err |-> TRUE]
        ELSE [state |-> new_state, err |-> FALSE]

request_start(cur) == _transition(cur, {"IDLE"}, "STARTING")

mark_running(cur) == _transition(cur, {"STARTING"}, "RUNNING")

request_stop_mut(cur) == _transition(cur, {"RUNNING", "FAILED", "STARTING"}, "STOPPING")
request_stop(cur) == _transition(cur, {"RUNNING", "FAILED"}, "STOPPING")

mark_failed_mut(cur) == _transition(cur, {"RUNNING"}, "FAILED")
mark_failed(cur) == _transition(cur, {"STARTING", "RUNNING"}, "FAILED")

mark_idle(cur) == _transition(cur, {"STOPPING"}, "IDLE")

SMOps == {"request_start", "mark_running", "request_stop", "mark_failed", "mark_idle"}

SMApply(op, cur) ==
    CASE op = "request_start" -> request_start(cur)
      [] op = "mark_running" -> mark_running(cur)
      [] op = "request_stop" -> request_stop(cur)
      [] op = "mark_failed" -> mark_failed(cur)
      [] op = "mark_idle" -> mark_idle(cur)

SMInitVals ==
    /\ smState = "IDLE"
    /\ smLast = [op |-> "init", from |-> "IDLE", err |-> FALSE]
    /\ smCalls = 0

SMCall(op) ==
    /\ smCalls < MaxCalls
    /\ LET r == SMApply(op, smState) IN
        /\ smState' = r.state
        /\ smLast' = [op |-> op, from |-> smState, err |-> r.err]
    /\ smCalls' = smCalls + 1
    /\ UNCHANGED <<ladVars, busVars, ownerVars, arbVars, monVars>>

SM_request_start == SMCall("request_start")
SM_mark_running == SMCall("mark_running")
SM_request_stop == SMCall("request_stop")
SM_mark_failed == SMCall("mark_failed")
SM_mark_idle == SMCall("mark_idle")

\* ========================================================================
\* monitor_service.py: _build_monitoring_config_ladder
\* ========================================================================
CaptureConfig(width, height, fps, input_width, input_height, input_fps, label) ==
    [width |-> width, height |-> height, fps |-> fps,
     input_width |-> input_width, input_height |-> input_height,
     input_fps |-> input_fps, label |-> label]

_build_monitoring_config_ladder(width, height, fps, is_virtual) ==
    LET requested == CaptureConfig(width, height, fps, Some(width), Some(height), Some(fps), "requested")
        implicit == CaptureConfig(width, height, fps, None, None, None, "implicit-default")
    IN IF is_virtual THEN <<implicit, implicit>> ELSE <<requested, implicit>>

Widths == {320 * i : i \in 1..MaxDim}
Heights == {240 * i : i \in 1..MaxDim}
FpsValues == {10 * i : i \in 1..MaxDim}

DbgIdle == [rows |-> <<>>, removed |-> {}, clock |-> 0, max_bytes |-> 0, max_count |-> 0, next_id |-> 1]
DetIdle == [input |-> None, result |-> None, done |-> FALSE, calls |-> <<>>]
\* no frame evaluated and no DetectorState made
SeqIdle == [state |-> None, now |-> 0, frames |-> 0, before |-> None, result |-> None,
            debug |-> None, warnings |-> 0, streak |-> 0]
\* FfmpegCaptureSupervisor.__init__: no process, no threads
SupIdle == [process |-> "none", terminated |-> FALSE, killed |-> FALSE, _stop |-> FALSE,
            reader |-> "none", stderr |-> "none", pc |-> "idle", calls |-> 0, trace |-> <<>>]

LadInitVals ==
    /\ ladIn = [width |-> 320, height |-> 240, fps |-> 10, is_virtual |-> FALSE]
    /\ ladOut = <<>>
    /\ ladDone = FALSE
    /\ dbg = DbgIdle
    /\ det = DetIdle
    /\ sup = SupIdle
    /\ seq = SeqIdle

LadInit ==
    /\ ladIn \in [width : Widths, height : Heights, fps : FpsValues, is_virtual : BOOLEAN]
    /\ ladOut = <<>>
    /\ ladDone = FALSE
    /\ dbg = DbgIdle
    /\ det = DetIdle
    /\ sup = SupIdle
    /\ seq = SeqIdle

BuildLadder ==
    /\ ~ladDone
    /\ ladOut' = _build_monitoring_config_ladder(ladIn.width, ladIn.height, ladIn.fps, ladIn.is_virtual)
    /\ ladDone' = TRUE
    /\ UNCHANGED <<ladIn, dbg, det, sup, seq, smVars, busVars, ownerVars, arbVars, monVars>>

\* ========================================================================
\* frame_bus.py / monitor_pipeline.py: FrameQueue
\* ========================================================================
OverflowPolicy == {"drop_oldest", "last_only"}

\* FrameQueue.__init__: frame_bus clamps maxlen to at least 1; the legacy
\* ring buffer of monitor_pipeline has no policy and only ever drops oldest.
\* consumers of one frame queue: none is inside get, nothing was taken
Consumers == 1..MaxConsumers
GetsIdle ==
    [cons |-> [c \in Consumers |-> [pc |-> "idle", timeout |-> None, elapsed |-> 0]],
     taken |-> <<>>,
     last |-> [consumer |-> 0, ret |-> None, blocked |-> FALSE, timeout |-> None, elapsed |-> 0]]

BusInitVals ==
    /\ bq_impl = "frame_bus"
    /\ bq_policy = "drop_oldest"
    /\ bq_maxlen = 1
    /\ bq_queue = <<>>
    /\ bq_dropped_frames = 0
    /\ bq_dropped = 0
    /\ bq_stale = FALSE
    /\ bq_puts = 0
    /\ bq_ops = 0
    /\ bq_removed = FALSE
    /\ bq_last = [op |-> "init", ret |-> None, before |-> <<>>]
    /\ bq_gets = GetsIdle

BusInit ==
    /\ \/ /\ bq_impl = "frame_bus"
          /\ bq_policy \in OverflowPolicy
          /\ \E requested \in 0..MaxCap : bq_maxlen = Max(1, requested)
       \/ /\ bq_impl = "monitor_pipeline"
          /\ bq_policy = "drop_oldest"
          /\ bq_maxlen \in 1..MaxCap
    /\ bq_queue = <<>>
    /\ bq_dropped_frames = 0
    /\ bq_dropped = 0
    /\ bq_stale = FALSE
    /\ bq_puts = 0
    /\ bq_ops = 0
    /\ bq_removed = FALSE
    /\ bq_last = [op |-> "init", ret |-> None, before |-> <<>>]
    /\ bq_gets = GetsIdle

\* FrameQueue.put as a function of the queue: the entries kept and the
\* number evicted.
put_keep_newest_mut(policy, maxlen, q, packet) ==
    IF policy = "last_only"
        THEN [queue |-> IF q = <<>> THEN <<packet>> ELSE <<q[1]>>, evicted |-> Len(q)]
        ELSE IF Len(q) >= maxlen
            THEN [queue |-> Append(SubSeq(q, 1, Len(q) - 1), packet), evicted |-> 1]
            ELSE [queue |-> Append(q, packet), evicted |-> 0]
put(policy, maxlen, q, packet) ==
    IF policy = "last_only"
        THEN [queue |-> <<packet>>, evicted |-> Len(q)]
        ELSE IF Len(q) >= maxlen
            THEN [queue |-> Append(Tail(q), packet), evicted |-> 1]
            ELSE [queue |-> Append(q, packet), evicted |-> 0]

BusPut ==
    /\ bq_puts < MaxPuts
    /\ LET packet == bq_puts + 1
           r == put(bq_policy, bq_maxlen, bq_queue, packet)
       IN /\ bq_queue' = r.queue
          /\ bq_dropped' = bq_dropped + r.evicted
          /\ bq_dropped_frames' = IF bq_impl = "frame_bus"
                                     THEN bq_dropped_frames + r.evicted
                                     ELSE bq_dropped_frames
          /\ bq_last' = [op |-> "put", ret |-> Some(packet), before |-> bq_queue]
    /\ bq_puts' = bq_puts + 1
    /\ UNCHANGED <<bq_impl, bq_policy, bq_maxlen, bq_stale, bq_ops, bq_removed, bq_gets, smVars, ladVars, ownerVars, arbVars, monVars>>

\* FrameQueue.get by a lone consumer: a packet if one is queued, else None
\* once the wait has timed out.
BusGet ==
    /\ bq_ops < MaxOps
    /\ IF bq_queue = <<>>
          THEN /\ bq_last' = [op |-> "get", ret |-> None, before |-> bq_queue]
               /\ UNCHANGED bq_queue
          ELSE /\ bq_last' = [op |-> "get", ret |-> Some(Head(bq_queue)), before |-> bq_queue]
               /\ bq_queue' = Tail(bq_queue)
    /\ bq_ops' = bq_ops + 1
    /\ bq_removed' = TRUE
    /\ UNCHANGED <<bq_impl, bq_policy, bq_maxlen, bq_dropped_frames, bq_dropped,
                   bq_stale, bq_puts, bq_gets, smVars, ladVars, ownerVars, arbVars, monVars>>

\* FrameQueue.peek_latest (frame_bus only)
BusPeekLatest ==
    /\ bq_ops < MaxOps
    /\ bq_impl = "frame_bus"
    /\ bq_last' = [op |-> "peek_latest",
                   ret |-> IF bq_queue = <<>> THEN None ELSE Some(bq_queue[Len(bq_queue)]),
                   before |-> bq_queue]
    /\ bq_ops' = bq_ops + 1
    /\ UNCHANGED <<bq_impl, bq_policy, bq_maxlen, bq_queue, bq_dropped_frames, bq_dropped,
                   bq_stale, bq_puts, bq_removed, bq_gets, smVars, ladVars, ownerVars, arbVars, monVars>>

\* FrameQueue.clear(stale); the legacy queue has no stale flag
BusClear ==
    /\ bq_ops < MaxOps
    /\ \E stale \in BOOLEAN :
        bq_stale' = IF bq_impl = "frame_bus" THEN stale ELSE bq_stale
    /\ bq_queue' = <<>>
    /\ bq_last' = [op |-> "clear", ret |-> None, before |-> bq_queue]
    /\ bq_ops' = bq_ops + 1
    /\ bq_removed' = TRUE
    /\ UNCHANGED <<bq_impl, bq_policy, bq_maxlen, bq_dropped_frames, bq_dropped,
                   bq_puts, bq_gets, smVars, ladVars, ownerVars, arbVars, monVars>>

\* FrameQueue.size
BusSize ==
    /\ bq_ops < MaxOps
    /\ bq_last' = [op |-> "size", ret |-> Some(Len(bq_queue)), before |-> bq_queue]
    /\ bq_ops' = bq_ops + 1
    /\ UNCHANGED <<bq_impl, bq_policy, bq_maxlen, bq_queue, bq_dropped_frames, bq_dropped,
                   bq_stale, bq_puts, bq_removed, bq_gets, smVars, ladVars, ownerVars, arbVars, monVars>>

\* ========================================================================
\* monitor_service.py: camera ownership arbiter
\* ========================================================================
Roles == {"monitoring", "preview"}
Tokens == {"cam1", "cam2"}

\* _acquire_camera_owner, the test made under _CAMERA_OWNER_LOCK: another
\* pipeline, or the same pipeline with another token, is a conflict.
OwnerConflict_perToken(owner, token, pipeline, input_token) ==
    owner # None /\ token # Some(input_token)
OwnerConflict_mut(owner, token, pipeline, input_token) ==
    owner # None /\ owner # Some(pipeline)
OwnerConflict(owner, token, pipeline, input_token) ==
    owner # None /\ (owner # Some(pipeline) \/ token # Some(input_token))

\* _release_camera_owner, the test made under _CAMERA_OWNER_LOCK
OwnerMatches_mut(owner, token, pipeline, input_token) ==
    owner = Some(pipeline)
OwnerMatches(owner, token, pipeline, input_token) ==
    owner = Some(pipeline) /\ token = Some(input_token)

LockFree_mut(lock) == TRUE
LockFree(lock) == lock = None

\* _CAMERA_REOPEN_COOLDOWN_SEC = 0.4, in ticks of 0.2 s
_CAMERA_REOPEN_COOLDOWN_SEC == 2

\* time.time() at start is far past _LAST_CAMERA_RELEASE_AT = 0.0
OwnerInitVals ==
    /\ _ACTIVE_OWNER_PIPELINE = None
    /\ _ACTIVE_CAMERA_TOKEN = None
    /\ _LAST_CAMERA_RELEASE_AT = 0
    /\ _CAMERA_OWNER_LOCK = None
    /\ now = _CAMERA_REOPEN_COOLDOWN_SEC

ArbInitVals ==
    /\ arb_pc = [r \in Roles |-> "idle"]
    /\ arb_arg = [r \in Roles |-> "cam1"]
    /\ arb_hist = [r \in Roles |-> <<>>]
    /\ arb_wake = [r \in Roles |-> 0]
    /\ arb_released = [t \in Tokens |-> 0]
    /\ ref_hist = <<>>
    /\ lk = [th \in {"mon", "gui"} |-> [prog |-> <<>>, calls |-> 0]]

\* a caller enters _acquire_camera_owner(role, token)
ArbCallAcquire(r) ==
    /\ arb_pc[r] = "idle"
    /\ Len(arb_hist[r]) < MaxArbCalls
    /\ \E t \in Tokens : arb_arg' = [arb_arg EXCEPT ![r] = t]
    /\ arb_pc' = [arb_pc EXCEPT ![r] = "acquire_lock"]
    /\ UNCHANGED <<lk, ref_hist, arb_released, arb_wake, arb_hist, ownerVars, smVars, ladVars, busVars, monVars>>

\* a caller enters _release_camera_owner(role, token)
ArbCallRelease(r) ==
    /\ arb_pc[r] = "idle"
    /\ Len(arb_hist[r]) < MaxArbCalls
    /\ \E t \in Tokens : arb_arg' = [arb_arg EXCEPT ![r] = t]
    /\ arb_pc' = [arb_pc EXCEPT ![r] = "release_lock"]
    /\ UNCHANGED <<lk, ref_hist, arb_released, arb_wake, arb_hist, ownerVars, smVars, ladVars, busVars, monVars>>

\* with _CAMERA_OWNER_LOCK:
ArbLock(r) ==
    /\ arb_pc[r] \in {"acquire_lock", "release_lock"}
    /\ LockFree(_CAMERA_OWNER_LOCK)
    /\ _CAMERA_OWNER_LOCK' = Some(r)
    /\ arb_pc' = [arb_pc EXCEPT ![r] = IF arb_pc[r] = "acquire_lock"
                                          THEN "acquire_check" ELSE "release_body"]
    /\ UNCHANGED <<lk, ref_hist, arb_released, arb_wake, arb_arg, arb_hist, _ACTIVE_OWNER_PIPELINE, _ACTIVE_CAMERA_TOKEN,
                   _LAST_CAMERA_RELEASE_AT, now, smVars, ladVars, busVars, monVars>>

\* _acquire_camera_owner line 74-75: the conflict test and the failing return
ArbAcquireCheck(r) ==
    /\ arb_pc[r] = "acquire_check"
    /\ IF OwnerConflict(_ACTIVE_OWNER_PIPELINE, _ACTIVE_CAMERA_TOKEN, r, arb_arg[r])
          THEN /\ arb_hist' = [arb_hist EXCEPT ![r] =
                      Append(@, [op |-> "acquire", token |-> arb_arg[r], ok |-> FALSE,
                                 reason |-> _ACTIVE_OWNER_PIPELINE])]
               /\ arb_pc' = [arb_pc EXCEPT ![r] = "idle"]
               /\ _CAMERA_OWNER_LOCK' = None
          ELSE /\ arb_pc' = [arb_pc EXCEPT ![r] = "acquire_set"]
               /\ UNCHANGED <<arb_hist, _CAMERA_OWNER_LOCK>>
    /\ UNCHANGED <<lk, ref_hist, arb_released, arb_wake, arb_arg, _ACTIVE_OWNER_PIPELINE, _ACTIVE_CAMERA_TOKEN,
                   _LAST_CAMERA_RELEASE_AT, now, smVars, ladVars, busVars, monVars>>

\* _acquire_camera_owner line 76-78: record the owner, return True
ArbAcquireSet(r) ==
    /\ arb_pc[r] = "acquire_set"
    /\ _ACTIVE_OWNER_PIPELINE' = Some(r)
    /\ _ACTIVE_CAMERA_TOKEN' = Some(arb_arg[r])
    /\ arb_hist' = [arb_hist EXCEPT ![r] =
           Append(@, [op |-> "acquire", token |-> arb_arg[r], ok |-> TRUE, reason |-> None])]
    /\ arb_pc' = [arb_pc EXCEPT ![r] = "idle"]
    /\ _CAMERA_OWNER_LOCK' = None
    /\ UNCHANGED <<lk, ref_hist, arb_released, arb_wake, arb_arg, _LAST_CAMERA_RELEASE_AT, now, smVars, ladVars, busVars, monVars>>

\* _release_camera_owner line 84-87
ArbReleaseBody(r) ==
    /\ arb_pc[r] = "release_body"
    /\ LET hit == OwnerMatches(_ACTIVE_OWNER_PIPELINE, _ACTIVE_CAMERA_TOKEN, r, arb_arg[r]) IN
        /\ _ACTIVE_OWNER_PIPELINE' = IF hit THEN None ELSE _ACTIVE_OWNER_PIPELINE
        /\ _ACTIVE_CAMERA_TOKEN' = IF hit THEN None ELSE _ACTIVE_CAMERA_TOKEN
        /\ _LAST_CAMERA_RELEASE_AT' = IF hit THEN now ELSE _LAST_CAMERA_RELEASE_AT
        /\ arb_hist' = [arb_hist EXCEPT ![r] =
               Append(@, [op |-> "release", token |-> arb_arg[r], ok |-> hit, reason |-> None])]
    /\ arb_released' = IF OwnerMatches(_ACTIVE_OWNER_PIPELINE, _ACTIVE_CAMERA_TOKEN, r, arb_arg[r])
                          THEN [arb_released EXCEPT ![arb_arg[r]] = now]
                          ELSE arb_released
    /\ arb_pc' = [arb_pc EXCEPT ![r] = "idle"]
    /\ _CAMERA_OWNER_LOCK' = None
    /\ UNCHANGED <<lk, ref_hist, arb_wake, arb_arg, now, smVars, ladVars, busVars, monVars>>

\* _wait_camera_reopen_cooldown line 93: the time left of the cooldown
CooldownRemaining_mut(t, last) == 0
CooldownRemaining(t, last) == _CAMERA_REOPEN_COOLDOWN_SEC - (t - last)

\* the callers of line 132-135, 208-213 and 282-286: a successful
\* _acquire_camera_owner is followed by _wait_camera_reopen_cooldown()
ArbCallWait(r) ==
    /\ arb_pc[r] = "idle"
    /\ Len(arb_hist[r]) \in 1..(MaxArbCalls - 1)
    /\ LET e == arb_hist[r][Len(arb_hist[r])] IN e.op = "acquire" /\ e.ok
    /\ arb_pc' = [arb_pc EXCEPT ![r] = "wait_read"]
    /\ UNCHANGED <<lk, ref_hist, arb_released, arb_wake, arb_arg, arb_hist, ownerVars, smVars, ladVars, busVars, monVars>>

\* _wait_camera_reopen_cooldown line 92-95: remaining is read under
\* _CAMERA_OWNER_LOCK; nothing left to wait for returns True at once
ArbWaitRead(r) ==
    /\ arb_pc[r] = "wait_read"
    /\ LockFree(_CAMERA_OWNER_LOCK)
    /\ LET remaining == CooldownRemaining(now, _LAST_CAMERA_RELEASE_AT) IN
        IF remaining <= 0
            THEN /\ arb_hist' = [arb_hist EXCEPT ![r] =
                        Append(@, [op |-> "wait", token |-> arb_arg[r], ok |-> TRUE,
                                   reason |-> None])]
                 /\ arb_pc' = [arb_pc EXCEPT ![r] = "idle"]
                 /\ UNCHANGED arb_wake
            ELSE /\ arb_wake' = [arb_wake EXCEPT ![r] = now + remaining]
                 /\ arb_pc' = [arb_pc EXCEPT ![r] = "wait_sleep"]
                 /\ UNCHANGED arb_hist
    /\ UNCHANGED <<lk, ref_hist, arb_released, arb_arg, ownerVars, smVars, ladVars, busVars, monVars>>

\* _wait_camera_reopen_cooldown line 96-99 without a stop_event:
\* time.sleep(remaining), return True
ArbWaitSleep(r) ==
    /\ arb_pc[r] = "wait_sleep"
    /\ now >= arb_wake[r]
    /\ arb_hist' = [arb_hist EXCEPT ![r] =
           Append(@, [op |-> "wait", token |-> arb_arg[r], ok |-> TRUE, reason |-> None])]
    /\ arb_pc' = [arb_pc EXCEPT ![r] = "idle"]
    /\ UNCHANGED <<lk, ref_hist, arb_released, arb_wake, arb_arg, ownerVars, smVars, ladVars, busVars, monVars>>

\* time passes
Tick ==
    /\ now < _CAMERA_REOPEN_COOLDOWN_SEC + MaxTime
    /\ now' = now + 1
    /\ UNCHANGED <<_ACTIVE_OWNER_PIPELINE, _ACTIVE_CAMERA_TOKEN, _LAST_CAMERA_RELEASE_AT,
                   _CAMERA_OWNER_LOCK, arbVars, smVars, ladVars, busVars, monVars>>

\* ========================================================================
\* monitor_service.py: capture objects
\* ========================================================================
Threads == {"mon", "gui"}

\* is_alive(): the child process has not exited
is_alive(c) == caps[c].alive

\* FfmpegCapture(...) followed by a successful start()
NewCapture(pipeline, token) ==
    [pipeline |-> pipeline, token |-> token, alive |-> TRUE, stop_calls |-> 0,
     last_error |-> 0, log_events |-> 0]

\* FfmpegCapture whose start() raised: no process
DeadCapture(pipeline, token) ==
    [pipeline |-> pipeline, token |-> token, alive |-> FALSE, stop_calls |-> 0,
     last_error |-> 0, log_events |-> 0]

\* stop(): terminate / kill the process, join the reader threads
StopCapture_mut(cs, c) == [cs EXCEPT ![c].stop_calls = @ + 1]
StopCapture(cs, c) == [cs EXCEPT ![c].alive = FALSE, ![c].stop_calls = @ + 1]

\* the child process exits on its own
CapDies ==
    /\ \E c \in 1..Len(caps) :
        /\ caps[c].alive
        /\ caps' = [caps EXCEPT ![c].alive = FALSE]
    /\ UNCHANGED <<snap_alive, pc, svcVars, runVars, stop_arg, globalVars, previewVars, guiVars,
                   ownerVars, arbVars, smVars, ladVars, busVars>>

\* _stderr_loop: a line classified ERROR becomes last_error and is queued
\* on log_events; the loop ends once stop() has set the stop flag
CapLogsError ==
    /\ \E c \in 1..Len(caps) :
        /\ caps[c].stop_calls = 0
        /\ caps[c].last_error < MaxErrLines
        /\ caps' = [caps EXCEPT ![c].last_error = @ + 1, ![c].log_events = @ + 1]
    /\ UNCHANGED <<snap_alive, pc, svcVars, runVars, stop_arg, globalVars, previewVars, guiVars,
                   ownerVars, arbVars, smVars, ladVars, busVars>>

\* ========================================================================
\* monitor_service.py: arbiter calls made by the capture functions
\* ========================================================================
NoOwnerChange ==
    UNCHANGED <<_ACTIVE_OWNER_PIPELINE, _ACTIVE_CAMERA_TOKEN, _LAST_CAMERA_RELEASE_AT>>

\* _acquire_camera_owner returning True
acquire_camera_owner(pipeline, input_token) ==
    /\ _ACTIVE_OWNER_PIPELINE' = Some(pipeline)
    /\ _ACTIVE_CAMERA_TOKEN' = Some(input_token)
    /\ UNCHANGED _LAST_CAMERA_RELEASE_AT

\* _release_camera_owner(pipeline, token), token = None standing for ""
release_camera_owner(pipeline, token) ==
    IF _ACTIVE_OWNER_PIPELINE = Some(pipeline) /\ _ACTIVE_CAMERA_TOKEN = token /\ token # None
        THEN /\ _ACTIVE_OWNER_PIPELINE' = None
             /\ _ACTIVE_CAMERA_TOKEN' = None
             /\ _LAST_CAMERA_RELEASE_AT' = now
        ELSE NoOwnerChange

OtherSpecs == UNCHANGED <<_CAMERA_OWNER_LOCK, now, arbVars, smVars, ladVars, busVars>>

\* ========================================================================
\* monitor_service.py: _release_global_capture
\* ========================================================================
\* the body run under _GLOBAL_LOCK
release_global_capture_mut ==
    IF _GLOBAL_USERS <= 0
        THEN UNCHANGED <<_GLOBAL_CAPTURE, _GLOBAL_USERS, _GLOBAL_INPUT_TOKEN, _GLOBAL_CONFIG, caps>>
             /\ NoOwnerChange
    ELSE /\ _GLOBAL_USERS' = _GLOBAL_USERS - 1
         /\ IF _GLOBAL_CAPTURE # None
               THEN /\ caps' = StopCapture(caps, _GLOBAL_CAPTURE[1])
                    /\ release_camera_owner("monitoring", _GLOBAL_INPUT_TOKEN)
               ELSE UNCHANGED caps /\ NoOwnerChange
         /\ _GLOBAL_CAPTURE' = None
         /\ _GLOBAL_INPUT_TOKEN' = None
         /\ _GLOBAL_CONFIG' = None
release_global_capture ==
    IF _GLOBAL_USERS <= 0
        THEN UNCHANGED <<_GLOBAL_CAPTURE, _GLOBAL_USERS, _GLOBAL_INPUT_TOKEN, _GLOBAL_CONFIG, caps>>
             /\ NoOwnerChange
    ELSE IF _GLOBAL_USERS - 1 > 0
        THEN /\ _GLOBAL_USERS' = _GLOBAL_USERS - 1
             /\ UNCHANGED <<_GLOBAL_CAPTURE, _GLOBAL_INPUT_TOKEN, _GLOBAL_CONFIG, caps>>
             /\ NoOwnerChange
    ELSE /\ _GLOBAL_USERS' = 0
         /\ IF _GLOBAL_CAPTURE # None
               THEN /\ caps' = StopCapture(caps, _GLOBAL_CAPTURE[1])
                    /\ release_camera_owner("monitoring", _GLOBAL_INPUT_TOKEN)
               ELSE UNCHANGED caps /\ NoOwnerChange
         /\ _GLOBAL_CAPTURE' = None
         /\ _GLOBAL_INPUT_TOKEN' = None
         /\ _GLOBAL_CONFIG' = None

\* ========================================================================
\* monitor_service.py: MonitorService.stop, run by the GUI thread or by the
\* finally block of run()
\* ========================================================================
Status(kind, text, c, line) == [kind |-> kind, text |-> text, cap |-> c, line |-> line]

StopIsNoop_mut(state) == state = "STOPPING"
StopIsNoop(state) == state \in {"IDLE", "STOPPING"}

\* where stop() returns to
AfterStop(th) == IF th = "mon" THEN "resume" ELSE "idle"

\* what a stop() call of the GUI thread found on entry
GuiStopEntered(th) ==
    IF th = "gui"
        THEN gui_hist' = Append(gui_hist, [entry |-> svc_state, cap |-> _capture,
                                           acquired |-> _capture_acquired,
                                           run |-> runs, held |-> FALSE, releases |-> 0,
                                           done |-> StopIsNoop(svc_state)])
        ELSE UNCHANGED gui_hist

\* a stop() call of the GUI thread returns
GuiStopReturned(th) ==
    IF th = "gui"
        THEN gui_hist' = [gui_hist EXCEPT ![Len(gui_hist)].done = TRUE]
        ELSE UNCHANGED gui_hist

\* a stop() call of the GUI thread tests "self._capture and
\* self._capture_acquired" at line 668
GuiStopTested(th) ==
    IF th = "gui"
        THEN gui_hist' = [gui_hist EXCEPT ![Len(gui_hist)].held =
                                              (_capture # None /\ _capture_acquired)]
        ELSE UNCHANGED gui_hist

\* a stop() call of the GUI thread calls _release_global_capture
GuiStopReleases(th) ==
    IF th = "gui"
        THEN gui_hist' = [gui_hist EXCEPT ![Len(gui_hist)].releases = @ + 1]
        ELSE UNCHANGED gui_hist

\* line 654-655
StopEntry(th) ==
    /\ pc[th] = "stop"
    /\ IF StopIsNoop(svc_state)
          THEN pc' = [pc EXCEPT ![th] = AfterStop(th)]
          ELSE pc' = [pc EXCEPT ![th] = "stop_request"]
    /\ GuiStopEntered(th)
    /\ UNCHANGED <<svcVars, runVars, stop_arg, globalVars, previewVars, capVars,
                   gui_op, gui_arg, gui_ret, gui_ops, runs, ownerVars>>
    /\ OtherSpecs

\* line 657-661
StopRequest(th) ==
    /\ pc[th] = "stop_request"
    /\ LET r == request_stop(svc_state) IN
        /\ svc_state' = r.state
        /\ state_log' = IF r.err THEN state_log ELSE Append(state_log, "STOPPING")
    /\ pc' = [pc EXCEPT ![th] = "stop_signal"]
    /\ UNCHANGED <<_stop_event, _capture, _capture_acquired, running, _processing_thread,
                   monitoring_active, status_log, runVars, stop_arg, globalVars, previewVars,
                   capVars, guiVars, ownerVars>>
    /\ OtherSpecs

\* line 663-668: the processing loop ends on the stop event and is joined
StopSignal(th) ==
    /\ pc[th] = "stop_signal"
    /\ _stop_event' = TRUE
    /\ _processing_thread' = FALSE
    /\ pc' = [pc EXCEPT ![th] = IF _capture # None /\ _capture_acquired
                                   THEN "stop_release" ELSE "stop_idle"]
    /\ GuiStopTested(th)
    /\ UNCHANGED <<svc_state, _capture, _capture_acquired, running, monitoring_active,
                   status_log, state_log, runVars, stop_arg, globalVars, previewVars,
                   capVars, gui_op, gui_arg, gui_ret, gui_ops, runs, ownerVars>>
    /\ OtherSpecs

\* line 669
StopRelease(th) ==
    /\ pc[th] = "stop_release"
    /\ _GLOBAL_LOCK = None
    /\ release_global_capture
    /\ pc' = [pc EXCEPT ![th] = "stop_released"]
    /\ GuiStopReleases(th)
    /\ UNCHANGED <<svcVars, runVars, stop_arg, _GLOBAL_LOCK, previewVars, snap_alive,
                   gui_op, gui_arg, gui_ret, gui_ops, runs>>
    /\ OtherSpecs

\* line 670
StopReleased(th) ==
    /\ pc[th] = "stop_released"
    /\ _capture_acquired' = FALSE
    /\ pc' = [pc EXCEPT ![th] = "stop_idle"]
    /\ UNCHANGED <<svc_state, _stop_event, _capture, running, _processing_thread,
                   monitoring_active, status_log, state_log, runVars, stop_arg, globalVars,
                   previewVars, capVars, guiVars, ownerVars>>
    /\ OtherSpecs

\* line 672-681: mark_idle, or a fresh state machine when that is refused
StopIdle(th) ==
    /\ pc[th] = "stop_idle"
    /\ running' = FALSE
    /\ monitoring_active' = FALSE
    /\ LET r == mark_idle(svc_state) IN
        svc_state' = IF r.err THEN "IDLE" ELSE r.state
    /\ state_log' = Append(state_log, "IDLE")
    /\ status_log' = IF stop_arg[th].emit_status
                        THEN Append(status_log, Status("Stopped", "", 0, 0))
                        ELSE status_log
    /\ pc' = [pc EXCEPT ![th] = AfterStop(th)]
    /\ GuiStopReturned(th)
    /\ UNCHANGED <<_stop_event, _capture, _capture_acquired, _processing_thread, runVars,
                   stop_arg, globalVars, previewVars, capVars,
                   gui_op, gui_arg, gui_ret, gui_ops, runs, ownerVars>>
    /\ OtherSpecs

\* ========================================================================
\* monitor_service.py: preview pause / resume / release
\* ========================================================================
\* pause_preview_for_monitoring line 249-252
PauseFlag(th) ==
    /\ pc[th] = "pause_flag"
    /\ _PREVIEW_LOCK = None
    /\ _PREVIEW_PAUSED_FOR_MONITORING' = TRUE
    /\ _PREVIEW_STATIC_FRAME' = FALSE
    /\ _PREVIEW_CONFIG' = None
    /\ pc' = [pc EXCEPT ![th] = "pause_release"]
    /\ UNCHANGED <<svcVars, runVars, stop_arg, globalVars, _PREVIEW_CAPTURE, _PREVIEW_INPUT_TOKEN,
                   _PREVIEW_RESTARTED, _PREVIEW_LOCK, capVars, guiVars, ownerVars>>
    /\ OtherSpecs

\* release_preview_capture, the body run under _PREVIEW_LOCK
release_preview_capture ==
    /\ IF _PREVIEW_CAPTURE # None
          THEN /\ caps' = StopCapture(caps, _PREVIEW_CAPTURE[1])
               /\ release_camera_owner("preview", _PREVIEW_INPUT_TOKEN)
          ELSE UNCHANGED caps /\ NoOwnerChange
    /\ _PREVIEW_CAPTURE' = None
    /\ _PREVIEW_INPUT_TOKEN' = None
    /\ _PREVIEW_CONFIG' = None
    /\ _PREVIEW_RESTARTED' = TRUE

\* pause_preview_for_monitoring line 254
PauseRelease(th) ==
    /\ pc[th] = "pause_release"
    /\ _PREVIEW_LOCK = None
    /\ release_preview_capture
    /\ pc' = [pc EXCEPT ![th] = IF th = "mon" THEN "pre" ELSE "idle"]
    /\ UNCHANGED <<svcVars, runVars, stop_arg, globalVars, _PREVIEW_PAUSED_FOR_MONITORING,
                   _PREVIEW_STATIC_FRAME, _PREVIEW_LOCK, snap_alive, guiVars>>
    /\ OtherSpecs

\* resume_preview_after_monitoring, line 577
Resume ==
    /\ pc["mon"] = "resume"
    /\ _PREVIEW_LOCK = None
    /\ _PREVIEW_PAUSED_FOR_MONITORING' = FALSE
    /\ pc' = [pc EXCEPT !["mon"] = "idle"]
    /\ UNCHANGED <<svcVars, runVars, stop_arg, globalVars, _PREVIEW_CAPTURE, _PREVIEW_INPUT_TOKEN,
                   _PREVIEW_CONFIG, _PREVIEW_RESTARTED, _PREVIEW_STATIC_FRAME, _PREVIEW_LOCK,
                   capVars, guiVars, ownerVars>>
    /\ OtherSpecs

\* ========================================================================
\* monitor_service.py: MonitorService.run
\* ========================================================================
\* candidates[0].token of the camera selected for monitoring; the preview
\* calls of the GUI thread name this camera or another one
SelectedToken == "cam1"

max_retries_mut == 2 + 1
max_retries == 2

\* run() reads the profile's frame size and fps; one request is modelled
RunWidth == 1280
RunHeight == 720
RunFps == 30

NoReason == [text |-> "unknown capture failure", cap |-> 0, line |-> 0]

\* cap.last_error or <default>
ReasonOf(c, default) ==
    IF caps[c].last_error # 0
        THEN [text |-> "last_error", cap |-> c, line |-> caps[c].last_error]
        ELSE [text |-> default, cap |-> 0, line |-> 0]

FailedStatus(reason) == Status("Monitoring failed", reason.text, reason.cap, reason.line)

\* line 438-442: _set_state(STARTING, request_start)
RunStart ==
    /\ pc["mon"] = "run"
    /\ LET r == request_start(svc_state) IN
        IF r.err
            THEN /\ status_log' = Append(status_log, Status("State error", "", 0, 0))
                 /\ pc' = [pc EXCEPT !["mon"] = "idle"]
                 /\ UNCHANGED <<svc_state, state_log, failed>>
            ELSE /\ svc_state' = r.state
                 /\ state_log' = Append(state_log, "STARTING")
                 /\ failed' = FALSE
                 /\ pc' = [pc EXCEPT !["mon"] = "pause_flag"]
                 /\ UNCHANGED status_log
    /\ UNCHANGED <<_stop_event, _capture, _capture_acquired, running, _processing_thread,
                   monitoring_active, attempt, failure_reason, cap, exc, mon_in, stored_camera,
                   stop_arg, globalVars, previewVars, capVars, guiVars, ownerVars>>
    /\ OtherSpecs

\* mark_failed() called straight on the state machine: FAILED, or
\* InvalidTransition raised into the except clauses
MarkFailedOr(raise_pc) ==
    LET r == mark_failed(svc_state) IN
        IF r.err
            THEN /\ pc' = [pc EXCEPT !["mon"] = raise_pc]
                 /\ exc' = "InvalidTransition"
                 /\ UNCHANGED <<svc_state, failed>>
            ELSE /\ svc_state' = r.state
                 /\ failed' = TRUE
                 /\ pc' = [pc EXCEPT !["mon"] = "finally"]
                 /\ UNCHANGED exc

Preconditions == {"no profile", "no reference", "no camera", "camera not found", "ok"}

\* line 444-488: the preconditions, the candidate and the ladder
RunPreconditions ==
    /\ pc["mon"] = "pre"
    /\ _stop_event' = FALSE
    /\ _capture' = None
    /\ _capture_acquired' = FALSE
    /\ \E outcome \in Preconditions :
        \/ /\ outcome = "no profile"
           /\ status_log' = Append(status_log, Status("No profile selected", "", 0, 0))
           /\ MarkFailedOr("except")
           /\ UNCHANGED <<stored_camera, mon_in, attempt, failure_reason>>
        \/ /\ outcome = "no reference"
           /\ status_log' = Append(status_log, Status("No reference selected", "", 0, 0))
           /\ MarkFailedOr("except")
           /\ UNCHANGED <<stored_camera, mon_in, attempt, failure_reason>>
        \/ /\ outcome = "no camera"
           /\ ~stored_camera
           /\ status_log' = Append(status_log, Status("No camera selected", "", 0, 0))
           /\ MarkFailedOr("except")
           /\ UNCHANGED <<stored_camera, mon_in, attempt, failure_reason>>
        \/ /\ outcome = "camera not found"
           /\ stored_camera
           /\ stored_camera' = FALSE
           /\ status_log' = Append(status_log, Status("Monitoring failed", "camera not found", 0, 0))
           /\ MarkFailedOr("except")
           /\ UNCHANGED <<mon_in, attempt, failure_reason>>
        \/ /\ outcome = "ok"
           /\ stored_camera
           /\ \E v \in BOOLEAN : mon_in' = [token |-> SelectedToken, is_virtual |-> v]
           /\ attempt' = 1
           /\ failure_reason' = NoReason
           /\ pc' = [pc EXCEPT !["mon"] = "loop"]
           /\ UNCHANGED <<stored_camera, status_log, svc_state, failed, exc>>
    /\ UNCHANGED <<running, _processing_thread, monitoring_active, state_log, cap,
                   stop_arg, globalVars, previewVars, capVars, guiVars, ownerVars>>
    /\ OtherSpecs

configs == _build_monitoring_config_ladder(RunWidth, RunHeight, RunFps, mon_in.is_virtual)

\* line 490-499: top of the retry loop
RunLoop ==
    /\ pc["mon"] = "loop"
    /\ IF attempt > max_retries \/ _stop_event
          THEN /\ pc' = [pc EXCEPT !["mon"] = "after_loop"]
               /\ UNCHANGED status_log
          ELSE IF attempt > 1
              THEN /\ status_log' = Append(status_log, Status("Monitoring retrying", "", 0, attempt))
                   /\ pc' = [pc EXCEPT !["mon"] = "retry_wait"]
              ELSE /\ pc' = [pc EXCEPT !["mon"] = "ensure"]
                   /\ UNCHANGED status_log
    /\ UNCHANGED <<svc_state, _stop_event, _capture, _capture_acquired, running,
                   _processing_thread, monitoring_active, state_log, runVars, stop_arg,
                   globalVars, previewVars, capVars, guiVars, ownerVars>>
    /\ OtherSpecs

\* line 497-498: self._stop_event.wait(_CAMERA_REOPEN_COOLDOWN_SEC)
RunRetryWait ==
    /\ pc["mon"] = "retry_wait"
    /\ pc' = [pc EXCEPT !["mon"] = IF _stop_event THEN "after_loop" ELSE "ensure"]
    /\ UNCHANGED <<svcVars, runVars, stop_arg, globalVars, previewVars, capVars, guiVars, ownerVars>>
    /\ OtherSpecs

\* the config of this attempt, line 493
AttemptConfig == configs[Min(attempt - 1, Len(configs) - 1) + 1]

\* _ensure_global_capture line 118-134: reuse or replace the registered
\* capture, then take camera ownership
EnsureGlobalAcquire ==
    /\ pc["mon"] = "ensure"
    /\ _GLOBAL_LOCK = None
    /\ IF /\ _GLOBAL_CAPTURE # None
          /\ is_alive(_GLOBAL_CAPTURE[1])
          /\ _GLOBAL_INPUT_TOKEN = Some(mon_in.token)
          /\ _GLOBAL_CONFIG = Some(AttemptConfig)
          THEN /\ _GLOBAL_USERS' = _GLOBAL_USERS + 1
               /\ cap' = _GLOBAL_CAPTURE[1]
               /\ pc' = [pc EXCEPT !["mon"] = "assign"]
               /\ UNCHANGED <<_GLOBAL_CAPTURE, _GLOBAL_LOCK, caps, exc>>
               /\ NoOwnerChange
          ELSE LET replaced == _GLOBAL_CAPTURE # None /\ is_alive(_GLOBAL_CAPTURE[1]) IN
               /\ caps' = IF replaced THEN StopCapture(caps, _GLOBAL_CAPTURE[1]) ELSE caps
               /\ _GLOBAL_CAPTURE' = IF replaced THEN None ELSE _GLOBAL_CAPTURE
               /\ _GLOBAL_USERS' = IF replaced THEN 0 ELSE _GLOBAL_USERS
               /\ IF OwnerConflict(_ACTIVE_OWNER_PIPELINE, _ACTIVE_CAMERA_TOKEN,
                                   "monitoring", mon_in.token)
                     THEN /\ exc' = "owned by " \o _ACTIVE_OWNER_PIPELINE[1]
                          /\ pc' = [pc EXCEPT !["mon"] = "except"]
                          /\ NoOwnerChange
                          /\ UNCHANGED _GLOBAL_LOCK
                     ELSE /\ acquire_camera_owner("monitoring", mon_in.token)
                          /\ _GLOBAL_LOCK' = Some("mon")
                          /\ pc' = [pc EXCEPT !["mon"] = "ensure_start"]
                          /\ UNCHANGED exc
               /\ UNCHANGED cap
    /\ UNCHANGED <<svcVars, attempt, failed, failure_reason, mon_in, stored_camera, stop_arg,
                   _GLOBAL_INPUT_TOKEN, _GLOBAL_CONFIG, previewVars, snap_alive, guiVars>>
    /\ OtherSpecs

StartOutcomes == {"started", "FfmpegNotFoundError", "Exception"}

\* _ensure_global_capture line 135-165: cooldown, construct, start.
\* "FfmpegNotFoundError" is start() raising on the new object, "Exception" the
\* constructor raising; the except clause stops whatever _GLOBAL_CAPTURE is.
EnsureGlobalStart ==
    /\ pc["mon"] = "ensure_start"
    /\ _GLOBAL_LOCK = Some("mon")
    /\ _GLOBAL_LOCK' = None
    /\ \E outcome \in StartOutcomes :
        IF outcome = "started"
            THEN /\ caps' = Append(caps, NewCapture("monitoring", mon_in.token))
                 /\ _GLOBAL_CAPTURE' = Some(Len(caps) + 1)
                 /\ _GLOBAL_INPUT_TOKEN' = Some(mon_in.token)
                 /\ _GLOBAL_CONFIG' = Some(AttemptConfig)
                 /\ _GLOBAL_USERS' = 1
                 /\ cap' = Len(caps) + 1
                 /\ pc' = [pc EXCEPT !["mon"] = "assign"]
                 /\ NoOwnerChange
                 /\ UNCHANGED exc
            ELSE /\ caps' = IF outcome = "FfmpegNotFoundError"
                               THEN Append(caps, [DeadCapture("monitoring", mon_in.token)
                                                     EXCEPT !.stop_calls = 1])
                               ELSE IF _GLOBAL_CAPTURE # None
                                   THEN StopCapture(caps, _GLOBAL_CAPTURE[1]) ELSE caps
                 /\ _GLOBAL_CAPTURE' = None
                 /\ _GLOBAL_USERS' = 0
                 /\ _GLOBAL_INPUT_TOKEN' = None
                 /\ _GLOBAL_CONFIG' = None
                 /\ release_camera_owner("monitoring", Some(mon_in.token))
                 /\ exc' = outcome
                 /\ pc' = [pc EXCEPT !["mon"] = IF outcome = "FfmpegNotFoundError"
                                                   THEN "except_not_found" ELSE "except"]
                 /\ UNCHANGED cap
    /\ UNCHANGED <<svcVars, attempt, failed, failure_reason, mon_in, stored_camera, stop_arg,
                   previewVars, snap_alive, guiVars>>
    /\ OtherSpecs

\* line 506-507
RunAssign ==
    /\ pc["mon"] = "assign"
    /\ _capture' = Some(cap)
    /\ _capture_acquired' = TRUE
    /\ pc' = [pc EXCEPT !["mon"] = "grace"]
    /\ UNCHANGED <<svc_state, _stop_event, running, _processing_thread, monitoring_active,
                   status_log, state_log, runVars, stop_arg, globalVars, previewVars, capVars,
                   guiVars, ownerVars>>
    /\ OtherSpecs

\* _drain_ffmpeg_logs, called in the grace loop and the polling loop
RunDrain ==
    /\ pc["mon"] \in {"grace", "poll"}
    /\ _capture # None
    /\ caps[_capture[1]].log_events > 0
    /\ status_log' = Append(status_log,
           Status("FFmpeg error", "last_error", _capture[1],
                  caps[_capture[1]].last_error - caps[_capture[1]].log_events + 1))
    /\ caps' = [caps EXCEPT ![_capture[1]].log_events = @ - 1]
    /\ UNCHANGED <<pc, svc_state, _stop_event, _capture, _capture_acquired, running,
                   _processing_thread, monitoring_active, state_log, runVars, stop_arg,
                   globalVars, previewVars, snap_alive, guiVars, ownerVars>>
    /\ OtherSpecs

\* line 509-523: the grace loop ends (stop event, 2.5 s, or a dead process)
RunGrace ==
    /\ pc["mon"] = "grace"
    /\ IF ~is_alive(cap)
          THEN /\ failure_reason' = ReasonOf(cap, "ffmpeg exited during startup")
               /\ pc' = [pc EXCEPT !["mon"] = "attempt_release"]
          ELSE /\ pc' = [pc EXCEPT !["mon"] = "mark_running"]
               /\ UNCHANGED failure_reason
    /\ UNCHANGED <<svcVars, attempt, failed, cap, exc, mon_in, stored_camera, stop_arg,
                   globalVars, previewVars, capVars, guiVars, ownerVars>>
    /\ OtherSpecs

\* line 520 / 547: _release_global_capture(clear_queue=True)
RunAttemptRelease ==
    /\ pc["mon"] = "attempt_release"
    /\ _GLOBAL_LOCK = None
    /\ release_global_capture
    /\ pc' = [pc EXCEPT !["mon"] = "attempt_clear"]
    /\ UNCHANGED <<svcVars, runVars, stop_arg, _GLOBAL_LOCK, previewVars, snap_alive, guiVars>>
    /\ OtherSpecs

\* line 521-523 / 548-549, and the loop moves to the next attempt
RunAttemptClear ==
    /\ pc["mon"] = "attempt_clear"
    /\ _capture_acquired' = FALSE
    /\ _capture' = None
    /\ attempt' = attempt + 1
    /\ pc' = [pc EXCEPT !["mon"] = "loop"]
    /\ UNCHANGED <<svc_state, _stop_event, running, _processing_thread, monitoring_active,
                   status_log, state_log, failed, failure_reason, cap, exc, mon_in, stored_camera,
                   stop_arg, globalVars, previewVars, capVars, guiVars, ownerVars>>
    /\ OtherSpecs

\* line 525-526
RunMarkRunning ==
    /\ pc["mon"] = "mark_running"
    /\ LET r == mark_running(svc_state) IN
        IF r.err
            THEN /\ exc' = "InvalidTransition"
                 /\ pc' = [pc EXCEPT !["mon"] = "except"]
                 /\ UNCHANGED <<svc_state, state_log>>
            ELSE /\ svc_state' = r.state
                 /\ state_log' = Append(state_log, "RUNNING")
                 /\ pc' = [pc EXCEPT !["mon"] = "set_running"]
                 /\ UNCHANGED exc
    /\ UNCHANGED <<_stop_event, _capture, _capture_acquired, running, _processing_thread,
                   monitoring_active, status_log, attempt, failed, failure_reason, cap, mon_in,
                   stored_camera, stop_arg, globalVars, previewVars, capVars, guiVars, ownerVars>>
    /\ OtherSpecs

\* line 527-536: the processing thread runs until the stop event is set
RunSetRunning ==
    /\ pc["mon"] = "set_running"
    /\ monitoring_active' = TRUE
    /\ running' = TRUE
    /\ status_log' = Append(status_log, Status("Monitoring...", "", 0, 0))
    /\ _processing_thread' = ~_stop_event
    /\ pc' = [pc EXCEPT !["mon"] = "poll"]
    /\ UNCHANGED <<svc_state, _stop_event, _capture, _capture_acquired, state_log, runVars,
                   stop_arg, globalVars, previewVars, capVars, guiVars, ownerVars>>
    /\ OtherSpecs

\* line 538-549: the polling loop ends on the stop event or a dead process
RunPoll ==
    /\ pc["mon"] = "poll"
    /\ _stop_event \/ ~is_alive(cap)
    /\ IF _stop_event
          THEN /\ pc' = [pc EXCEPT !["mon"] = "after_loop"]
               /\ UNCHANGED failure_reason
          ELSE /\ failure_reason' = ReasonOf(cap, "ffmpeg exited unexpectedly")
               /\ pc' = [pc EXCEPT !["mon"] = "attempt_release"]
    /\ UNCHANGED <<svcVars, attempt, failed, cap, exc, mon_in, stored_camera, stop_arg,
                   globalVars, previewVars, capVars, guiVars, ownerVars>>
    /\ OtherSpecs

\* line 551-556
RunAfterLoop ==
    /\ pc["mon"] = "after_loop"
    /\ IF _stop_event
          THEN /\ pc' = [pc EXCEPT !["mon"] = "finally"]
               /\ UNCHANGED _processing_thread
          ELSE /\ pc' = [pc EXCEPT !["mon"] = "after_join"]
               /\ _processing_thread' = FALSE
    /\ UNCHANGED <<svc_state, _stop_event, _capture, _capture_acquired, running,
                   monitoring_active, status_log, state_log, runVars, stop_arg, globalVars,
                   previewVars, capVars, guiVars, ownerVars>>
    /\ OtherSpecs

\* line 558-561
RunReportFailure ==
    /\ pc["mon"] = "after_join"
    /\ IF ~running
          THEN /\ status_log' = Append(status_log, FailedStatus(failure_reason))
               /\ MarkFailedOr("except")
          ELSE /\ pc' = [pc EXCEPT !["mon"] = "finally"]
               /\ UNCHANGED <<status_log, svc_state, failed, exc>>
    /\ UNCHANGED <<_stop_event, _capture, _capture_acquired, running, _processing_thread,
                   monitoring_active, state_log, attempt, failure_reason, cap, mon_in,
                   stored_camera, stop_arg, globalVars, previewVars, capVars, guiVars, ownerVars>>
    /\ OtherSpecs

\* line 563-566: except FfmpegNotFoundError; an InvalidTransition raised by
\* mark_failed here leaves the handler with failed still False
RunExceptNotFound ==
    /\ pc["mon"] = "except_not_found"
    /\ status_log' = Append(status_log, Status("Monitoring failed", "FFmpeg not found", 0, 0))
    /\ LET r == mark_failed(svc_state) IN
        /\ svc_state' = r.state
        /\ failed' = ~r.err
    /\ pc' = [pc EXCEPT !["mon"] = "finally"]
    /\ UNCHANGED <<_stop_event, _capture, _capture_acquired, running, _processing_thread,
                   monitoring_active, state_log, attempt, failure_reason, cap, exc, mon_in,
                   stored_camera, stop_arg, globalVars, previewVars, capVars, guiVars, ownerVars>>
    /\ OtherSpecs

\* line 567-574: except Exception
RunExcept ==
    /\ pc["mon"] = "except"
    /\ status_log' = Append(status_log, Status("Monitoring failed", exc, 0, 0))
    /\ svc_state' = mark_failed(svc_state).state
    /\ failed' = TRUE
    /\ pc' = [pc EXCEPT !["mon"] = "finally"]
    /\ UNCHANGED <<_stop_event, _capture, _capture_acquired, running, _processing_thread,
                   monitoring_active, state_log, attempt, failure_reason, cap, exc, mon_in,
                   stored_camera, stop_arg, globalVars, previewVars, capVars, guiVars, ownerVars>>
    /\ OtherSpecs

\* line 575-576: finally: self.stop(clear_queue=failed, emit_status=not failed)
RunFinally ==
    /\ pc["mon"] = "finally"
    /\ stop_arg' = [stop_arg EXCEPT !["mon"] = [clear_queue |-> failed, emit_status |-> ~failed]]
    /\ pc' = [pc EXCEPT !["mon"] = "stop"]
    /\ UNCHANGED <<svcVars, runVars, globalVars, previewVars, capVars, guiVars, ownerVars>>
    /\ OtherSpecs

\* ========================================================================
\* The GUI thread: MonitorController / DashboardPanel call sites
\* ========================================================================
GuiIdle == pc["gui"] = "idle" /\ gui_ops < MaxGuiOps

PreviewIdle == pc["gui"] = "idle" /\ gui_ops < MaxPreviewOps

GuiFrame ==
    UNCHANGED <<svcVars, runVars, globalVars, previewVars, capVars, gui_ret, gui_hist, ownerVars>>

\* QThread.start(): MonitorController.start when the thread is not running
GuiStartRun ==
    /\ pc["gui"] = "idle"
    /\ pc["mon"] = "idle"
    /\ runs < MaxRuns
    /\ runs' = runs + 1
    /\ pc' = [pc EXCEPT !["mon"] = "run"]
    /\ UNCHANGED <<gui_op, gui_arg, gui_ops, stop_arg>>
    /\ GuiFrame
    /\ OtherSpecs

\* MonitorService.stop() called from the GUI thread
GuiCallStop ==
    /\ GuiIdle
    /\ gui_op' = "stop"
    /\ gui_ops' = gui_ops + 1
    /\ stop_arg' = [stop_arg EXCEPT !["gui"] = [clear_queue |-> FALSE, emit_status |-> TRUE]]
    /\ pc' = [pc EXCEPT !["gui"] = "stop"]
    /\ UNCHANGED <<gui_arg, runs>>
    /\ GuiFrame
    /\ OtherSpecs

\* pause_preview_for_monitoring() called from DashboardPanel.start
GuiCallPause ==
    /\ PreviewIdle
    /\ gui_op' = "pause_preview_for_monitoring"
    /\ gui_ops' = gui_ops + 1
    /\ pc' = [pc EXCEPT !["gui"] = "pause_flag"]
    /\ UNCHANGED <<gui_arg, runs, stop_arg>>
    /\ GuiFrame
    /\ OtherSpecs

\* release_preview_capture() called from the GUI thread
GuiReleasePreview ==
    /\ PreviewIdle
    /\ _PREVIEW_LOCK = None
    /\ release_preview_capture
    /\ gui_op' = "release_preview_capture"
    /\ gui_ops' = gui_ops + 1
    /\ UNCHANGED <<pc, svcVars, runVars, stop_arg, globalVars, _PREVIEW_PAUSED_FOR_MONITORING,
                   _PREVIEW_STATIC_FRAME, _PREVIEW_LOCK, snap_alive, gui_arg, gui_ret, gui_hist,
                   runs>>
    /\ OtherSpecs

\* a preview call returns (ok, reason) to the GUI thread
PreviewReturns(ok, reason) ==
    /\ gui_ret' = [op |-> gui_op, ok |-> ok, reason |-> reason,
                   session |-> pc["mon"]]
    /\ pc' = [pc EXCEPT !["gui"] = "idle"]

\* ---- start_preview_for_selected_camera ---------------------------------
_PREVIEW_MAX_RETRIES == 2

PreviewConfigs == _build_monitoring_config_ladder(RunWidth, RunHeight, RunFps, gui_arg.is_virtual)

PreviewAttempts == Min(_PREVIEW_MAX_RETRIES, Len(PreviewConfigs))

\* line 322-330: resolve the candidate
GuiStartPreview ==
    /\ PreviewIdle
    /\ gui_op' = "start_preview_for_selected_camera"
    /\ gui_ops' = gui_ops + 1
    /\ \E t \in Tokens, v \in BOOLEAN :
          gui_arg' = [token |-> t, is_virtual |-> v, attempt |-> 1, reason |-> "unknown preview failure"]
    /\ \E found \in BOOLEAN :
          pc' = [pc EXCEPT !["gui"] = IF found THEN "pv_ensure" ELSE "pv_not_found"]
    /\ UNCHANGED <<runs, stop_arg>>
    /\ GuiFrame
    /\ OtherSpecs

\* line 323-325: no candidate
PreviewNotFound ==
    /\ pc["gui"] = "pv_not_found"
    /\ _PREVIEW_LOCK = None
    /\ release_preview_capture
    /\ PreviewReturns(FALSE, "selected camera not found")
    /\ UNCHANGED <<svcVars, runVars, stop_arg, globalVars, _PREVIEW_PAUSED_FOR_MONITORING,
                   _PREVIEW_STATIC_FRAME, _PREVIEW_LOCK, snap_alive, gui_op, gui_arg, gui_hist,
                   gui_ops, runs>>
    /\ OtherSpecs

\* what start_preview_for_selected_camera does with (False, skip_reason),
\* line 342-348 and 362
PreviewNotStarted(skip_reason, owned) ==
    IF owned
        THEN PreviewReturns(FALSE, skip_reason) /\ UNCHANGED gui_arg
        ELSE IF gui_arg.attempt < PreviewAttempts
            THEN /\ gui_arg' = [gui_arg EXCEPT !.attempt = @ + 1, !.reason = skip_reason]
                 /\ pc' = [pc EXCEPT !["gui"] = "pv_ensure"]
                 /\ UNCHANGED gui_ret
            ELSE PreviewReturns(FALSE, skip_reason) /\ UNCHANGED gui_arg

PreviewAttemptConfig == PreviewConfigs[gui_arg.attempt]

\* _ensure_preview_capture line 189-206
EnsurePreviewCheck ==
    /\ pc["gui"] = "pv_ensure"
    /\ _PREVIEW_LOCK = None
    /\ \/ /\ _PREVIEW_PAUSED_FOR_MONITORING
          /\ PreviewNotStarted("Preview paused while monitoring is active", FALSE)
          /\ UNCHANGED <<caps, _PREVIEW_LOCK>> /\ NoOwnerChange
       \/ /\ ~_PREVIEW_PAUSED_FOR_MONITORING
          /\ _ACTIVE_OWNER_PIPELINE = Some("monitoring")
          /\ PreviewNotStarted("Camera is currently owned by monitoring", TRUE)
          /\ UNCHANGED <<caps, _PREVIEW_LOCK>> /\ NoOwnerChange
       \/ /\ ~_PREVIEW_PAUSED_FOR_MONITORING
          /\ _ACTIVE_OWNER_PIPELINE # Some("monitoring")
          /\ IF /\ _PREVIEW_CAPTURE # None
                /\ is_alive(_PREVIEW_CAPTURE[1])
                /\ _PREVIEW_INPUT_TOKEN = Some(gui_arg.token)
                /\ _PREVIEW_CONFIG = Some(PreviewAttemptConfig)
                THEN /\ pc' = [pc EXCEPT !["gui"] = "pv_check"]
                     /\ UNCHANGED <<caps, _PREVIEW_LOCK, gui_arg, gui_ret>> /\ NoOwnerChange
                ELSE \/ /\ _PREVIEW_RESTARTED
                        /\ PreviewNotStarted("Preview restart debounced", FALSE)
                        /\ UNCHANGED <<caps, _PREVIEW_LOCK>> /\ NoOwnerChange
                     \/ /\ IF _PREVIEW_CAPTURE # None
                              THEN /\ caps' = StopCapture(caps, _PREVIEW_CAPTURE[1])
                                   /\ release_camera_owner("preview", _PREVIEW_INPUT_TOKEN)
                              ELSE UNCHANGED caps /\ NoOwnerChange
                        /\ _PREVIEW_LOCK' = Some("gui")
                        /\ pc' = [pc EXCEPT !["gui"] = "pv_acquire"]
                        /\ UNCHANGED <<gui_arg, gui_ret>>
    /\ UNCHANGED <<svcVars, runVars, stop_arg, globalVars, _PREVIEW_CAPTURE, _PREVIEW_INPUT_TOKEN,
                   _PREVIEW_CONFIG, _PREVIEW_PAUSED_FOR_MONITORING, _PREVIEW_RESTARTED,
                   _PREVIEW_STATIC_FRAME, snap_alive, gui_op, gui_hist, gui_ops, runs,
                   _CAMERA_OWNER_LOCK, now>>
    /\ UNCHANGED <<arbVars, smVars, ladVars, busVars>>

\* _ensure_preview_capture line 208-229
EnsurePreviewStart ==
    /\ pc["gui"] = "pv_acquire"
    /\ _PREVIEW_LOCK = Some("gui")
    /\ _PREVIEW_LOCK' = None
    /\ IF OwnerConflict(_ACTIVE_OWNER_PIPELINE, _ACTIVE_CAMERA_TOKEN, "preview", gui_arg.token)
          THEN /\ PreviewNotStarted("Camera is currently owned by " \o _ACTIVE_OWNER_PIPELINE[1], TRUE)
               /\ NoOwnerChange
               /\ UNCHANGED <<caps, _PREVIEW_CAPTURE, _PREVIEW_INPUT_TOKEN, _PREVIEW_CONFIG,
                              _PREVIEW_RESTARTED>>
          ELSE /\ acquire_camera_owner("preview", gui_arg.token)
               /\ _PREVIEW_RESTARTED' = TRUE
               /\ \E outcome \in StartOutcomes :
                    \/ /\ outcome = "started"
                       /\ caps' = Append(caps, NewCapture("preview", gui_arg.token))
                       /\ _PREVIEW_CAPTURE' = Some(Len(caps) + 1)
                       /\ _PREVIEW_INPUT_TOKEN' = Some(gui_arg.token)
                       /\ _PREVIEW_CONFIG' = Some(PreviewAttemptConfig)
                       /\ pc' = [pc EXCEPT !["gui"] = "pv_check"]
                       /\ UNCHANGED <<gui_arg, gui_ret>>
                    \/ /\ outcome = "FfmpegNotFoundError"
                       /\ caps' = Append(caps, DeadCapture("preview", gui_arg.token))
                       /\ _PREVIEW_CAPTURE' = Some(Len(caps) + 1)
                       /\ PreviewReturns(FALSE, "FFmpeg not found")
                       /\ UNCHANGED <<_PREVIEW_INPUT_TOKEN, _PREVIEW_CONFIG, gui_arg>>
                    \/ /\ outcome = "Exception"
                       /\ PreviewReturns(FALSE, "Exception")
                       /\ UNCHANGED <<caps, _PREVIEW_CAPTURE, _PREVIEW_INPUT_TOKEN,
                                      _PREVIEW_CONFIG, gui_arg>>
    /\ UNCHANGED <<svcVars, runVars, stop_arg, globalVars, _PREVIEW_PAUSED_FOR_MONITORING,
                   _PREVIEW_STATIC_FRAME, snap_alive, gui_op, gui_hist, gui_ops, runs>>
    /\ OtherSpecs

\* line 350-360: 0.15 s later, is the capture alive?
PreviewCheckAlive ==
    /\ pc["gui"] = "pv_check"
    /\ _PREVIEW_LOCK = None
    /\ IF _PREVIEW_CAPTURE # None /\ is_alive(_PREVIEW_CAPTURE[1])
          THEN /\ _PREVIEW_STATIC_FRAME' = FALSE
               /\ PreviewReturns(TRUE, "")
               /\ UNCHANGED gui_arg
          ELSE /\ UNCHANGED _PREVIEW_STATIC_FRAME
               /\ IF gui_arg.attempt < PreviewAttempts
                     THEN /\ pc' = [pc EXCEPT !["gui"] = "pv_retry"]
                          /\ gui_arg' = [gui_arg EXCEPT !.reason = "ffmpeg exited"]
                          /\ UNCHANGED gui_ret
                     ELSE /\ PreviewReturns(FALSE, "ffmpeg exited")
                          /\ UNCHANGED gui_arg
    /\ UNCHANGED <<svcVars, runVars, stop_arg, globalVars, _PREVIEW_CAPTURE, _PREVIEW_INPUT_TOKEN,
                   _PREVIEW_CONFIG, _PREVIEW_PAUSED_FOR_MONITORING, _PREVIEW_RESTARTED,
                   _PREVIEW_LOCK, capVars, gui_op, gui_hist, gui_ops, runs, ownerVars>>
    /\ OtherSpecs

\* line 358-360: release_preview_capture() before the next attempt
PreviewRetry ==
    /\ pc["gui"] = "pv_retry"
    /\ _PREVIEW_LOCK = None
    /\ release_preview_capture
    /\ gui_arg' = [gui_arg EXCEPT !.attempt = @ + 1]
    /\ pc' = [pc EXCEPT !["gui"] = "pv_ensure"]
    /\ UNCHANGED <<svcVars, runVars, stop_arg, globalVars, _PREVIEW_PAUSED_FOR_MONITORING,
                   _PREVIEW_STATIC_FRAME, _PREVIEW_LOCK, snap_alive, gui_op, gui_ret, gui_hist,
                   gui_ops, runs>>
    /\ OtherSpecs

\* ---- capture_preview_snapshot -------------------------------------------
\* line 267-280
GuiSnapshot ==
    /\ PreviewIdle
    /\ _PREVIEW_LOCK = None
    /\ gui_op' = "capture_preview_snapshot"
    /\ gui_ops' = gui_ops + 1
    /\ \E t \in Tokens, found \in BOOLEAN :
        /\ gui_arg' = [token |-> t, is_virtual |-> FALSE, attempt |-> 1,
                       reason |-> "Camera preview unavailable"]
        /\ IF ~found
              THEN /\ _PREVIEW_STATIC_FRAME' = FALSE
                   /\ _PREVIEW_CONFIG' = None
                   /\ gui_ret' = [op |-> "capture_preview_snapshot", ok |-> FALSE,
                                  reason |-> "Camera preview unavailable", session |-> pc["mon"]]
                   /\ UNCHANGED pc
              ELSE /\ UNCHANGED <<_PREVIEW_STATIC_FRAME, _PREVIEW_CONFIG>>
                   /\ IF _PREVIEW_PAUSED_FOR_MONITORING
                         THEN /\ gui_ret' = [op |-> "capture_preview_snapshot", ok |-> FALSE,
                                             reason |-> "Preview paused while monitoring is active",
                                             session |-> pc["mon"]]
                              /\ UNCHANGED pc
                         ELSE /\ pc' = [pc EXCEPT !["gui"] = "sn_acquire"]
                              /\ UNCHANGED gui_ret
    /\ UNCHANGED <<svcVars, runVars, stop_arg, globalVars, _PREVIEW_CAPTURE, _PREVIEW_INPUT_TOKEN,
                   _PREVIEW_PAUSED_FOR_MONITORING, _PREVIEW_RESTARTED, _PREVIEW_LOCK, capVars,
                   gui_hist, runs, ownerVars>>
    /\ OtherSpecs

\* line 281-289: acquire, cooldown, launch the one-frame ffmpeg
SnapshotAcquire ==
    /\ pc["gui"] = "sn_acquire"
    /\ IF gui_arg.attempt > _PREVIEW_MAX_RETRIES
          THEN /\ PreviewReturns(FALSE, gui_arg.reason)
               /\ NoOwnerChange
               /\ UNCHANGED snap_alive
          ELSE IF OwnerConflict(_ACTIVE_OWNER_PIPELINE, _ACTIVE_CAMERA_TOKEN, "preview", gui_arg.token)
              THEN /\ PreviewReturns(FALSE, "Camera is currently owned by " \o _ACTIVE_OWNER_PIPELINE[1])
                   /\ NoOwnerChange
                   /\ UNCHANGED snap_alive
              ELSE /\ acquire_camera_owner("preview", gui_arg.token)
                   /\ snap_alive' = TRUE
                   /\ pc' = [pc EXCEPT !["gui"] = "sn_capture"]
                   /\ UNCHANGED gui_ret
    /\ UNCHANGED <<svcVars, runVars, stop_arg, globalVars, previewVars, caps, gui_op, gui_arg,
                   gui_hist, gui_ops, runs>>
    /\ OtherSpecs

SnapshotOutcomes == {"frame", "size mismatch", "FfmpegNotFoundError", "Exception"}

\* the same without the release of the finally block
SnapshotDone_mut ==
    /\ pc["gui"] = "sn_capture"
    /\ _PREVIEW_LOCK = None
    /\ snap_alive' = FALSE
    /\ NoOwnerChange
    /\ \E outcome \in SnapshotOutcomes :
        \/ /\ outcome = "frame"
           /\ _PREVIEW_STATIC_FRAME' = TRUE
           /\ _PREVIEW_CONFIG' = Some(CaptureConfig(RunWidth, RunHeight, 1, None, None, None, "snapshot"))
           /\ PreviewReturns(TRUE, "")
           /\ UNCHANGED gui_arg
        \/ /\ outcome = "FfmpegNotFoundError"
           /\ PreviewReturns(FALSE, "FFmpeg not found")
           /\ UNCHANGED <<_PREVIEW_STATIC_FRAME, _PREVIEW_CONFIG, gui_arg>>
        \/ /\ outcome \in {"size mismatch", "Exception"}
           /\ gui_arg' = [gui_arg EXCEPT !.attempt = @ + 1]
           /\ pc' = [pc EXCEPT !["gui"] = "sn_acquire"]
           /\ UNCHANGED <<_PREVIEW_STATIC_FRAME, _PREVIEW_CONFIG, gui_ret>>
    /\ UNCHANGED <<svcVars, runVars, stop_arg, globalVars, _PREVIEW_CAPTURE, _PREVIEW_INPUT_TOKEN,
                   _PREVIEW_PAUSED_FOR_MONITORING, _PREVIEW_RESTARTED, _PREVIEW_LOCK, caps,
                   gui_op, gui_hist, gui_ops, runs>>
    /\ OtherSpecs

\* line 289-309: the frame arrives (or not); finally releases ownership
SnapshotDone ==
    /\ pc["gui"] = "sn_capture"
    /\ _PREVIEW_LOCK = None
    /\ snap_alive' = FALSE
    /\ release_camera_owner("preview", Some(gui_arg.token))
    /\ \E outcome \in SnapshotOutcomes :
        \/ /\ outcome = "frame"
           /\ _PREVIEW_STATIC_FRAME' = TRUE
           /\ _PREVIEW_CONFIG' = Some(CaptureConfig(RunWidth, RunHeight, 1, None, None, None, "snapshot"))
           /\ PreviewReturns(TRUE, "")
           /\ UNCHANGED gui_arg
        \/ /\ outcome = "FfmpegNotFoundError"
           /\ PreviewReturns(FALSE, "FFmpeg not found")
           /\ UNCHANGED <<_PREVIEW_STATIC_FRAME, _PREVIEW_CONFIG, gui_arg>>
        \/ /\ outcome \in {"size mismatch", "Exception"}
           /\ gui_arg' = [gui_arg EXCEPT !.attempt = @ + 1]
           /\ pc' = [pc EXCEPT !["gui"] = "sn_acquire"]
           /\ UNCHANGED <<_PREVIEW_STATIC_FRAME, _PREVIEW_CONFIG, gui_ret>>
    /\ UNCHANGED <<svcVars, runVars, stop_arg, globalVars, _PREVIEW_CAPTURE, _PREVIEW_INPUT_TOKEN,
                   _PREVIEW_PAUSED_FOR_MONITORING, _PREVIEW_RESTARTED, _PREVIEW_LOCK, caps,
                   gui_op, gui_hist, gui_ops, runs>>
    /\ OtherSpecs

\* ========================================================================
\* Initial state and next-state relation of the monitoring model
\* ========================================================================
MonInitFields ==
    /\ pc = [th \in Threads |-> "idle"]
    /\ svc_state = "IDLE"
    /\ _stop_event = FALSE
    /\ _capture = None
    /\ _capture_acquired = FALSE
    /\ running = FALSE
    /\ _processing_thread = FALSE
    /\ monitoring_active = FALSE
    /\ status_log = <<>>
    /\ state_log = <<>>
    /\ attempt = 1
    /\ failed = FALSE
    /\ failure_reason = NoReason
    /\ cap = 0
    /\ exc = ""
    /\ mon_in = [token |-> "cam1", is_virtual |-> FALSE]
    /\ stop_arg = [th \in Threads |-> [clear_queue |-> FALSE, emit_status |-> TRUE]]
    /\ _GLOBAL_CAPTURE = None
    /\ _GLOBAL_USERS = 0
    /\ _GLOBAL_INPUT_TOKEN = None
    /\ _GLOBAL_CONFIG = None
    /\ _GLOBAL_LOCK = None
    /\ _PREVIEW_CAPTURE = None
    /\ _PREVIEW_INPUT_TOKEN = None
    /\ _PREVIEW_CONFIG = None
    /\ _PREVIEW_PAUSED_FOR_MONITORING = FALSE
    /\ _PREVIEW_RESTARTED = FALSE
    /\ _PREVIEW_STATIC_FRAME = FALSE
    /\ _PREVIEW_LOCK = None
    /\ caps = <<>>
    /\ snap_alive = FALSE
    /\ gui_op = ""
    /\ gui_arg = [token |-> "cam1", is_virtual |-> FALSE, attempt |-> 1, reason |-> ""]
    /\ gui_ret = [op |-> "", ok |-> FALSE, reason |-> "", session |-> "idle"]
    /\ gui_hist = <<>>
    /\ gui_ops = 0
    /\ runs = 0

MonInitVals == MonInitFields /\ stored_camera = TRUE

\* ========================================================================
\* monitor_service.py: _ensure_global_capture / _release_global_capture
\* called in any order, each call one step (the whole body runs under
\* _GLOBAL_LOCK)
\* ========================================================================
RefConfigs ==
    LET l == _build_monitoring_config_ladder(RunWidth, RunHeight, RunFps, FALSE) IN
        {l[i] : i \in 1..Len(l)}

RefFrame ==
    UNCHANGED <<pc, svcVars, runVars, stop_arg, previewVars, snap_alive, guiVars,
                _CAMERA_OWNER_LOCK, now, arb_pc, arb_arg, arb_hist, arb_wake, arb_released, lk,
                smVars, ladVars, busVars>>

RefCalled(op, token, config, ret) ==
    ref_hist' = Append(ref_hist, [op |-> op, token |-> token, config |-> config,
                                  ret |-> ret, users |-> _GLOBAL_USERS'])

\* _ensure_global_capture(input_token, config): ret is the capture returned,
\* None when the call raises
RefEnsure(input_token, config, outcome) ==
    LET registered == _GLOBAL_CAPTURE # None /\ is_alive(_GLOBAL_CAPTURE[1])
        reuse == /\ registered
                 /\ _GLOBAL_INPUT_TOKEN = Some(input_token)
                 /\ _GLOBAL_CONFIG = Some(config)
        replaced == registered /\ ~reuse
        caps1 == IF replaced THEN StopCapture(caps, _GLOBAL_CAPTURE[1]) ELSE caps
        capture1 == IF replaced THEN None ELSE _GLOBAL_CAPTURE
        users1 == IF replaced THEN 0 ELSE _GLOBAL_USERS
    IN
    /\ Len(ref_hist) < MaxRefCalls
    /\ IF reuse
          THEN /\ _GLOBAL_USERS' = _GLOBAL_USERS + 1
               /\ UNCHANGED <<_GLOBAL_CAPTURE, _GLOBAL_INPUT_TOKEN, _GLOBAL_CONFIG, caps>>
               /\ NoOwnerChange
               /\ RefCalled("ensure", input_token, Some(config), _GLOBAL_CAPTURE)
       ELSE IF OwnerConflict(_ACTIVE_OWNER_PIPELINE, _ACTIVE_CAMERA_TOKEN, "monitoring", input_token)
          THEN /\ caps' = caps1
               /\ _GLOBAL_CAPTURE' = capture1
               /\ _GLOBAL_USERS' = users1
               /\ UNCHANGED <<_GLOBAL_INPUT_TOKEN, _GLOBAL_CONFIG>>
               /\ NoOwnerChange
               /\ RefCalled("ensure", input_token, Some(config), None)
       ELSE IF outcome = "started"
          THEN /\ caps' = Append(caps1, NewCapture("monitoring", input_token))
               /\ _GLOBAL_CAPTURE' = Some(Len(caps) + 1)
               /\ _GLOBAL_INPUT_TOKEN' = Some(input_token)
               /\ _GLOBAL_CONFIG' = Some(config)
               /\ _GLOBAL_USERS' = 1
               /\ acquire_camera_owner("monitoring", input_token)
               /\ RefCalled("ensure", input_token, Some(config), Some(Len(caps) + 1))
          ELSE /\ caps' = IF outcome = "FfmpegNotFoundError"
                             THEN Append(caps1, [DeadCapture("monitoring", input_token)
                                                    EXCEPT !.stop_calls = 1])
                             ELSE IF capture1 # None
                                 THEN StopCapture(caps1, capture1[1]) ELSE caps1
               /\ _GLOBAL_CAPTURE' = None
               /\ _GLOBAL_USERS' = 0
               /\ _GLOBAL_INPUT_TOKEN' = None
               /\ _GLOBAL_CONFIG' = None
               /\ _ACTIVE_OWNER_PIPELINE' = None
               /\ _ACTIVE_CAMERA_TOKEN' = None
               /\ _LAST_CAMERA_RELEASE_AT' = now
               /\ RefCalled("ensure", input_token, Some(config), None)
    /\ UNCHANGED _GLOBAL_LOCK
    /\ RefFrame

\* _release_global_capture()
RefRelease ==
    /\ Len(ref_hist) < MaxRefCalls
    /\ release_global_capture
    /\ RefCalled("release", "", None, None)
    /\ UNCHANGED _GLOBAL_LOCK
    /\ RefFrame

\* _ensure_preview_capture(input_token, config) in one step (the whole body
\* runs under _PREVIEW_LOCK); debounced: the last restart is less than
\* _PREVIEW_RESTART_DEBOUNCE_SEC ago
PrevEnsure(input_token, config, outcome, debounced) ==
    LET same == /\ _PREVIEW_CAPTURE # None
                /\ is_alive(_PREVIEW_CAPTURE[1])
                /\ _PREVIEW_INPUT_TOKEN = Some(input_token)
                /\ _PREVIEW_CONFIG = Some(config)
        caps1 == IF _PREVIEW_CAPTURE # None
                    THEN StopCapture(caps, _PREVIEW_CAPTURE[1]) ELSE caps
        released == /\ _PREVIEW_CAPTURE # None
                    /\ _PREVIEW_INPUT_TOKEN # None
                    /\ _ACTIVE_OWNER_PIPELINE = Some("preview")
                    /\ _ACTIVE_CAMERA_TOKEN = _PREVIEW_INPUT_TOKEN
        owner1 == IF released THEN None ELSE _ACTIVE_OWNER_PIPELINE
        token1 == IF released THEN None ELSE _ACTIVE_CAMERA_TOKEN
        last1 == IF released THEN now ELSE _LAST_CAMERA_RELEASE_AT
    IN
    /\ Len(ref_hist) < MaxRefCalls
    /\ UNCHANGED globalVars
    /\ IF \/ _PREVIEW_PAUSED_FOR_MONITORING
          \/ _ACTIVE_OWNER_PIPELINE = Some("monitoring")
          \/ (~same /\ _PREVIEW_RESTARTED /\ debounced)
          THEN /\ UNCHANGED <<caps, _PREVIEW_CAPTURE, _PREVIEW_INPUT_TOKEN, _PREVIEW_CONFIG,
                              _PREVIEW_RESTARTED>>
               /\ NoOwnerChange
               /\ RefCalled("ensure_preview", input_token, Some(config), None)
       ELSE IF same
          THEN /\ UNCHANGED <<caps, _PREVIEW_CAPTURE, _PREVIEW_INPUT_TOKEN, _PREVIEW_CONFIG,
                              _PREVIEW_RESTARTED>>
               /\ NoOwnerChange
               /\ RefCalled("ensure_preview", input_token, Some(config), _PREVIEW_CAPTURE)
       ELSE IF OwnerConflict(owner1, token1, "preview", input_token)
          THEN /\ caps' = caps1
               /\ _ACTIVE_OWNER_PIPELINE' = owner1
               /\ _ACTIVE_CAMERA_TOKEN' = token1
               /\ _LAST_CAMERA_RELEASE_AT' = last1
               /\ UNCHANGED <<_PREVIEW_CAPTURE, _PREVIEW_INPUT_TOKEN, _PREVIEW_CONFIG,
                              _PREVIEW_RESTARTED>>
               /\ RefCalled("ensure_preview", input_token, Some(config), None)
          ELSE /\ _ACTIVE_OWNER_PIPELINE' = Some("preview")
               /\ _ACTIVE_CAMERA_TOKEN' = Some(input_token)
               /\ _LAST_CAMERA_RELEASE_AT' = last1
               /\ _PREVIEW_RESTARTED' = TRUE
               /\ IF outcome = "started"
                     THEN /\ caps' = Append(caps1, NewCapture("preview", input_token))
                          /\ _PREVIEW_CAPTURE' = Some(Len(caps) + 1)
                          /\ _PREVIEW_INPUT_TOKEN' = Some(input_token)
                          /\ _PREVIEW_CONFIG' = Some(config)
                          /\ RefCalled("ensure_preview", input_token, Some(config),
                                       Some(Len(caps) + 1))
                  ELSE IF outcome = "FfmpegNotFoundError"
                     THEN /\ caps' = Append(caps1, DeadCapture("preview", input_token))
                          /\ _PREVIEW_CAPTURE' = Some(Len(caps) + 1)
                          /\ UNCHANGED <<_PREVIEW_INPUT_TOKEN, _PREVIEW_CONFIG>>
                          /\ RefCalled("ensure_preview", input_token, Some(config), None)
                     ELSE /\ caps' = caps1
                          /\ UNCHANGED <<_PREVIEW_CAPTURE, _PREVIEW_INPUT_TOKEN, _PREVIEW_CONFIG>>
                          /\ RefCalled("ensure_preview", input_token, Some(config), None)
    /\ UNCHANGED <<pc, svcVars, runVars, stop_arg, _PREVIEW_PAUSED_FOR_MONITORING,
                   _PREVIEW_STATIC_FRAME, _PREVIEW_LOCK, snap_alive, guiVars,
                   _CAMERA_OWNER_LOCK, now, arb_pc, arb_arg, arb_hist, arb_wake, arb_released, lk,
                   smVars, ladVars, busVars>>

\* release_preview_capture()
PrevRelease ==
    /\ Len(ref_hist) < MaxRefCalls
    /\ UNCHANGED globalVars
    /\ release_preview_capture
    /\ RefCalled("release_preview", "", None, None)
    /\ UNCHANGED <<pc, svcVars, runVars, stop_arg, _PREVIEW_PAUSED_FOR_MONITORING,
                   _PREVIEW_STATIC_FRAME, _PREVIEW_LOCK, snap_alive, guiVars,
                   _CAMERA_OWNER_LOCK, now, arb_pc, arb_arg, arb_hist, arb_wake, arb_released, lk,
                   smVars, ladVars, busVars>>

\* ========================================================================
\* monitor_service.py: the with-blocks of the module functions. A call is
\* the sequence of lock events of one path through its function.
\* ========================================================================
Acquire(lock) == [op |-> "acquire", lock |-> lock]
Release(lock) == [op |-> "release", lock |-> lock]

\* with lock: body
Within(lock, body) == <<Acquire(lock)>> \o body \o <<Release(lock)>>

\* n calls in a row of _acquire_camera_owner, _release_camera_owner or
\* _wait_camera_reopen_cooldown, each one "with _CAMERA_OWNER_LOCK:"
RECURSIVE OwnerCalls(_)
OwnerCalls(n) ==
    IF n = 0 THEN <<>> ELSE Within("_CAMERA_OWNER_LOCK", <<>>) \o OwnerCalls(n - 1)

\* _ensure_global_capture line 118-165: reuse (no arbiter call), acquire
\* refused, acquire and cooldown, acquire and cooldown and release on failure;
\* _release_global_capture line 170-184: with or without the owner release;
\* get_latest_global_frame, freeze_latest_global_frame: no arbiter call
GlobalLockPaths_mut == {Within("_GLOBAL_LOCK", Within("_PREVIEW_LOCK", OwnerCalls(1)))}
GlobalLockPaths == {Within("_GLOBAL_LOCK", OwnerCalls(n)) : n \in 0..3}

\* _ensure_preview_capture line 189-229: early return, then release of the
\* old capture's ownership (or not), acquire, cooldown; release_preview_capture
\* line 234-244; the other functions take _PREVIEW_LOCK around plain reads
\* and writes (line 249, 259, 269, 275, 296, 316, 351, 366, 378)
PreviewLockPaths == {Within("_PREVIEW_LOCK", OwnerCalls(n)) : n \in 0..3}

\* capture_preview_snapshot line 275-306: the paused test under
\* _PREVIEW_LOCK, then acquire, cooldown, (storing the frame under
\* _PREVIEW_LOCK,) release, none of them nested
SnapshotLockPaths_mut ==
    {Within("_CAMERA_OWNER_LOCK", Within("_PREVIEW_LOCK", <<>>))}
SnapshotLockPaths ==
    {Within("_PREVIEW_LOCK", <<>>) \o OwnerCalls(1),
     Within("_PREVIEW_LOCK", <<>>) \o OwnerCalls(3),
     Within("_PREVIEW_LOCK", <<>>) \o OwnerCalls(2) \o Within("_PREVIEW_LOCK", <<>>)
        \o OwnerCalls(1)}

\* freeze_latest_global_frame line 394-404: get_latest_preview_frame, then
\* get_latest_global_frame when there was no preview frame, then the block
\* under _GLOBAL_LOCK when there was no monitoring frame either
FreezeLockPaths ==
    {Within("_PREVIEW_LOCK", <<>>) \o Within("_GLOBAL_LOCK", <<>>),
     Within("_PREVIEW_LOCK", <<>>) \o Within("_GLOBAL_LOCK", <<>>)
        \o Within("_GLOBAL_LOCK", <<>>)}

\* pause_preview_for_monitoring line 247-254: the flag under _PREVIEW_LOCK,
\* then release_preview_capture, with or without the owner release
PauseLockPaths ==
    {Within("_PREVIEW_LOCK", <<>>) \o Within("_PREVIEW_LOCK", OwnerCalls(n)) : n \in 0..1}

LockPaths ==
    GlobalLockPaths \cup PreviewLockPaths \cup SnapshotLockPaths \cup FreezeLockPaths
        \cup PauseLockPaths

LockOf(name) ==
    CASE name = "_GLOBAL_LOCK" -> _GLOBAL_LOCK
      [] name = "_PREVIEW_LOCK" -> _PREVIEW_LOCK
      [] name = "_CAMERA_OWNER_LOCK" -> _CAMERA_OWNER_LOCK

LockNames == {"_GLOBAL_LOCK", "_PREVIEW_LOCK", "_CAMERA_OWNER_LOCK"}

LocksFrame ==
    UNCHANGED <<pc, svcVars, runVars, stop_arg, _GLOBAL_CAPTURE, _GLOBAL_USERS,
                _GLOBAL_INPUT_TOKEN, _GLOBAL_CONFIG, _PREVIEW_CAPTURE, _PREVIEW_INPUT_TOKEN,
                _PREVIEW_CONFIG, _PREVIEW_PAUSED_FOR_MONITORING, _PREVIEW_RESTARTED,
                _PREVIEW_STATIC_FRAME, capVars, guiVars, _ACTIVE_OWNER_PIPELINE,
                _ACTIVE_CAMERA_TOKEN, _LAST_CAMERA_RELEASE_AT, now, arb_pc, arb_arg, arb_hist,
                arb_wake, arb_released, ref_hist, smVars, ladVars, busVars>>

\* a thread calls one of the functions
LkCall(th) ==
    /\ lk[th].prog = <<>>
    /\ lk[th].calls < MaxLockCalls
    /\ \E path \in LockPaths :
        lk' = [lk EXCEPT ![th] = [prog |-> path, calls |-> @.calls + 1]]
    /\ UNCHANGED <<_GLOBAL_LOCK, _PREVIEW_LOCK, _CAMERA_OWNER_LOCK>>
    /\ LocksFrame

\* the next lock event of the call: entering a with-block waits for the
\* lock to be free, leaving it frees the lock
LkStep(th) ==
    /\ lk[th].prog # <<>>
    /\ LET e == Head(lk[th].prog)
           after == IF e.op = "acquire" THEN Some(th) ELSE None IN
        /\ e.op = "acquire" => LockOf(e.lock) = None
        /\ _GLOBAL_LOCK' = IF e.lock = "_GLOBAL_LOCK" THEN after ELSE _GLOBAL_LOCK
        /\ _PREVIEW_LOCK' = IF e.lock = "_PREVIEW_LOCK" THEN after ELSE _PREVIEW_LOCK
        /\ _CAMERA_OWNER_LOCK' = IF e.lock = "_CAMERA_OWNER_LOCK" THEN after
                                 ELSE _CAMERA_OWNER_LOCK
    /\ lk' = [lk EXCEPT ![th].prog = Tail(@)]
    /\ LocksFrame

\* ========================================================================
\* Specifications
\* ========================================================================
SMInit == SMInitVals /\ LadInitVals /\ BusInitVals /\ OwnerInitVals /\ ArbInitVals /\ MonInitVals
SMNext ==
    \/ SM_request_start
    \/ SM_mark_running
    \/ SM_request_stop
    \/ SM_mark_failed
    \/ SM_mark_idle
SpecSM == SMInit /\ [][SMNext]_vars

LadderInit == SMInitVals /\ LadInit /\ BusInitVals /\ OwnerInitVals /\ ArbInitVals /\ MonInitVals
LadderNext == BuildLadder
SpecLadder == LadderInit /\ [][LadderNext]_vars

BusSpecInit == SMInitVals /\ LadInitVals /\ BusInit /\ OwnerInitVals /\ ArbInitVals /\ MonInitVals
BusNext ==
    \/ BusPut
    \/ BusGet
    \/ BusPeekLatest
    \/ BusClear
    \/ BusSize
SpecBus == BusSpecInit /\ [][BusNext]_vars

ArbInit == SMInitVals /\ LadInitVals /\ BusInitVals /\ OwnerInitVals /\ ArbInitVals /\ MonInitVals
ArbNext ==
    \/ \E r \in Roles : ArbCallAcquire(r)
    \/ \E r \in Roles : ArbCallRelease(r)
    \/ \E r \in Roles : ArbLock(r)
    \/ \E r \in Roles : ArbAcquireCheck(r)
    \/ \E r \in Roles : ArbAcquireSet(r)
    \/ \E r \in Roles : ArbReleaseBody(r)
    \/ \E r \in Roles : ArbCallWait(r)
    \/ \E r \in Roles : ArbWaitRead(r)
    \/ \E r \in Roles : ArbWaitSleep(r)
    \/ Tick
SpecArb == ArbInit /\ [][ArbNext]_vars

RefNext ==
    \/ \E t \in Tokens : \E c \in RefConfigs : \E o \in StartOutcomes : RefEnsure(t, c, o)
    \/ RefRelease
    \/ CapDies
SpecRef == ArbInit /\ [][RefNext]_vars

\* both capture singletons, called in any order
CapsNext ==
    \/ \E t \in Tokens : \E c \in RefConfigs : \E o \in {"started", "Exception"} :
            RefEnsure(t, c, o)
    \/ RefRelease
    \/ \E t \in Tokens : \E c \in RefConfigs : \E o \in {"started", "FfmpegNotFoundError"} :
            \E d \in BOOLEAN : PrevEnsure(t, c, o, d)
    \/ PrevRelease
    \/ CapDies
SpecCaps == ArbInit /\ [][CapsNext]_vars

LocksNext ==
    \/ \E th \in Threads : LkCall(th)
    \/ \E th \in Threads : LkStep(th)
SpecLocks == ArbInit /\ [][LocksNext]_vars

\* the profile may or may not name a camera when the application starts
Init ==
    /\ SMInitVals /\ LadInitVals /\ BusInitVals /\ OwnerInitVals /\ ArbInitVals
    /\ MonInitFields
    /\ stored_camera \in BOOLEAN

\* MonitorService.run on the monitor thread, with the stop() it ends in
RunNext ==
    \/ GuiStartRun
    \/ RunStart
    \/ \E th \in Threads : PauseFlag(th)
    \/ \E th \in Threads : PauseRelease(th)
    \/ RunPreconditions
    \/ RunLoop
    \/ RunRetryWait
    \/ EnsureGlobalAcquire
    \/ EnsureGlobalStart
    \/ RunAssign
    \/ RunDrain
    \/ RunGrace
    \/ RunAttemptRelease
    \/ RunAttemptClear
    \/ RunMarkRunning
    \/ RunSetRunning
    \/ RunPoll
    \/ RunAfterLoop
    \/ RunReportFailure
    \/ RunExceptNotFound
    \/ RunExcept
    \/ RunFinally
    \/ Resume
    \/ \E th \in Threads : StopEntry(th)
    \/ \E th \in Threads : StopRequest(th)
    \/ \E th \in Threads : StopSignal(th)
    \/ \E th \in Threads : StopRelease(th)
    \/ \E th \in Threads : StopReleased(th)
    \/ \E th \in Threads : StopIdle(th)
    \/ CapDies
    \/ CapLogsError

\* the monitor thread against GUI calls of MonitorService.stop()
Next ==
    \/ RunNext
    \/ GuiCallStop

Spec == Init /\ [][Next]_vars

\* the monitor thread against GUI calls of the preview functions
PreviewNext ==
    \/ RunNext
    \/ GuiCallPause
    \/ GuiReleasePreview
    \/ GuiStartPreview
    \/ PreviewNotFound
    \/ EnsurePreviewCheck
    \/ EnsurePreviewStart
    \/ PreviewCheckAlive
    \/ PreviewRetry
    \/ GuiSnapshot
    \/ SnapshotAcquire
    \/ SnapshotDone

SpecPreview == Init /\ [][PreviewNext]_vars

\* ========================================================================
\* Claims
\* ========================================================================

\* C1: of two concurrent acquire calls for the same token made on an
\* unowned arbiter, one by monitoring and one by preview, exactly one
\* succeeds; the two roles never both hold a successful acquire that they
\* have not released.
Holds(r) ==
    {h.token : h \in {arb_hist[r][i] : i \in
        {i \in 1..Len(arb_hist[r]) :
            /\ arb_hist[r][i].op = "acquire"
            /\ arb_hist[r][i].ok
            /\ \A j \in (i+1)..Len(arb_hist[r]) :
                  ~(arb_hist[r][j].op = "release" /\ arb_hist[r][j].token = arb_hist[r][i].token)}}}
FirstCallsAreAcquiresOfSameToken ==
    /\ \A r \in Roles : Len(arb_hist[r]) = 1 /\ arb_hist[r][1].op = "acquire"
    /\ arb_hist["monitoring"][1].token = arb_hist["preview"][1].token
C1_ExactlyOneAcquires ==
    /\ FirstCallsAreAcquiresOfSameToken =>
          arb_hist["monitoring"][1].ok # arb_hist["preview"][1].ok
    /\ Holds("monitoring") = {} \/ Holds("preview") = {}
\* both calls were inside _acquire_camera_owner at once and have returned
C1_Witness ==
    /\ FirstCallsAreAcquiresOfSameToken
    /\ arb_hist["preview"][1].ok
    /\ ~arb_hist["monitoring"][1].ok
    /\ arb_hist["monitoring"][1].reason = Some("preview")

\* C2: every (state, operation) pair of the transition table moves to the
\* listed target state without error; every other pair raises
\* InvalidTransition and leaves the state unchanged.
TransitionTable ==
    {<<"IDLE", "request_start", "STARTING">>,
     <<"STARTING", "mark_running", "RUNNING">>,
     <<"STARTING", "mark_failed", "FAILED">>,
     <<"RUNNING", "mark_failed", "FAILED">>,
     <<"RUNNING", "request_stop", "STOPPING">>,
     <<"FAILED", "request_stop", "STOPPING">>,
     <<"STOPPING", "mark_idle", "IDLE">>}
C2_TransitionTable ==
    smCalls > 0 =>
        IF \E t \in TransitionTable : t[1] = smLast.from /\ t[2] = smLast.op
            THEN /\ ~smLast.err
                 /\ <<smLast.from, smLast.op, smState>> \in TransitionTable
            ELSE /\ smLast.err
                 /\ smState = smLast.from
\* a call outside the table has been rejected from STARTING
C2_Witness ==
    /\ smCalls > 0
    /\ smLast.op = "request_stop"
    /\ smLast.from = "STARTING"
    /\ smLast.err
    /\ smState = "STARTING"

\* C3: N puts and no gets under DROP_OLDEST with capacity K leave
\* dropped_frames = max(0, N-K) and exactly the last min(N, K) packets, in
\* insertion order.
LastInserted(n, k) == [i \in 1..Min(n, k) |-> n - Min(n, k) + i]
C3_DropOldest ==
    (bq_policy = "drop_oldest" /\ ~bq_removed) =>
        /\ bq_dropped = Max(0, bq_puts - bq_maxlen)
        /\ bq_impl = "frame_bus" => bq_dropped_frames = Max(0, bq_puts - bq_maxlen)
        /\ bq_queue = LastInserted(bq_puts, bq_maxlen)
\* capacity 2, three puts: one dropped, "b" and "c" survive
C3_Witness ==
    /\ bq_impl = "frame_bus"
    /\ bq_policy = "drop_oldest"
    /\ ~bq_removed
    /\ bq_maxlen = 2
    /\ bq_puts = 3
    /\ bq_dropped_frames = 1
    /\ bq_queue = <<2, 3>>

\* C4: under LAST_ONLY the queue holds exactly the packet just put after
\* any put.
C4_LastOnly ==
    (bq_policy = "last_only" /\ bq_last.op = "put") =>
        /\ Len(bq_queue) = 1
        /\ Some(bq_queue[1]) = bq_last.ret
\* a put onto a non-empty LAST_ONLY queue of capacity above 1
C4_Witness ==
    /\ bq_policy = "last_only"
    /\ bq_last.op = "put"
    /\ bq_last.before # <<>>
    /\ bq_maxlen > 1
    /\ Len(bq_queue) = 1

\* C5: virtual sources get the explicit config first and implicit-default
\* as sole fallback; physical sources get implicit-default first and the
\* explicit config after it.
IsExplicit(c) ==
    /\ c.input_width = Some(c.width)
    /\ c.input_height = Some(c.height)
    /\ c.input_fps = Some(c.fps)
IsImplicit(c) ==
    /\ c.input_width = None
    /\ c.input_height = None
    /\ c.input_fps = None
C5_LadderOrder ==
    ladDone =>
        /\ Len(ladOut) = 2
        /\ IF ladIn.is_virtual
              THEN IsExplicit(ladOut[1]) /\ IsImplicit(ladOut[2])
              ELSE IsImplicit(ladOut[1]) /\ IsExplicit(ladOut[2])

\* C6: the ladder never contains the same config twice.
C6_LadderNoDuplicates ==
    ladDone => \A i, j \in 1..Len(ladOut) : i # j => ladOut[i] # ladOut[j]

\* ------------------------------------------------------------------------
\* MonitorService.run against the GUI thread
\* ------------------------------------------------------------------------
\* run() has returned on the monitor thread
RunReturned == pc["mon"] = "idle" /\ runs > 0

\* the "Monitoring failed: <failure_reason>" statuses of line 559
StartupFailures ==
    {i \in 1..Len(status_log) :
        /\ status_log[i].kind = "Monitoring failed"
        /\ status_log[i].text \in {"last_error", "ffmpeg exited during startup"}}

\* an ERROR line of capture c was shown as "FFmpeg error: ..." before status i
ErrorShownBefore(c, i) ==
    \E j \in 1..(i - 1) : status_log[j].kind = "FFmpeg error" /\ status_log[j].cap = c

StartupFailureReported ==
    /\ Len(status_log) \in StartupFailures
    /\ status_log[Len(status_log)] = FailedStatus(failure_reason)
    /\ pc["mon"] \in {"except", "finally", "stop", "stop_request", "stop_signal",
                      "stop_release", "stop_released", "stop_idle", "resume", "idle"}

FailureStatus(s) ==
    s.kind \in {"No profile selected", "No reference selected", "No camera selected",
                "Monitoring failed"}

\* C8: every failure status of run() comes with a FAILED event on the
\* state_changed stream.
C8_FailedEventObserved ==
    (RunReturned /\ \E i \in 1..Len(status_log) : FailureStatus(status_log[i]))
        => \E j \in 1..Len(state_log) : state_log[j] = "FAILED"

\* a stop() call that finds IDLE or STOPPING returns at once: nothing but the
\* caller's position (and the record of the call) changes
C9_NoopStep ==
    \A th \in Threads :
        (pc[th] = "stop" /\ svc_state \in {"IDLE", "STOPPING"} /\ pc'[th] # pc[th]) =>
            /\ pc'[th] \in {"idle", "resume"}
            /\ UNCHANGED <<svcVars, runVars, globalVars, previewVars, capVars, ownerVars>>

\* of two successive stop() calls of the GUI thread, the first made in RUNNING
\* with the capture held: the first call has returned and has called
\* _release_global_capture once (not at all only if the monitor thread gave
\* the hold up before the call tested it), the second call found IDLE or
\* STOPPING and released nothing
C9_TwiceFromRunning ==
    \A i \in 1..(Len(gui_hist) - 1) :
        LET first == gui_hist[i]
            second == gui_hist[i + 1] IN
        (first.entry = "RUNNING" /\ first.cap # None /\ first.acquired
                /\ second.run = first.run) =>
            /\ first.done
            /\ first.releases = (IF first.held THEN 1 ELSE 0)
            /\ second.entry \in {"IDLE", "STOPPING"}
            /\ second.releases = 0
            /\ second.done

\* C9: stop() is idempotent: in IDLE or STOPPING it changes and emits nothing;
\* called twice in succession from RUNNING it releases the capture once and
\* the second call has no effect.
C9_StopIdempotent == [][C9_NoopStep]_vars /\ []C9_TwiceFromRunning

C9_Witness ==
    /\ Len(gui_hist) = 2
    /\ gui_hist[1].entry = "RUNNING" /\ gui_hist[1].cap # None /\ gui_hist[1].acquired
    /\ gui_hist[2].run = gui_hist[1].run
    /\ gui_hist[2].entry = "IDLE"
    /\ gui_hist[1].releases = 1
    /\ caps[gui_hist[1].cap[1]].stop_calls = 1
    /\ pc["gui"] = "idle"

\* run() has paused the preview and has not begun to release the camera
MonitoringSession ==
    pc["mon"] \in {"pre", "loop", "retry_wait", "ensure", "ensure_start", "assign", "grace",
                   "mark_running", "set_running", "poll"}

PreviewOps == {"start_preview_for_selected_camera", "capture_preview_snapshot"}

\* C10: during a monitoring session no preview process is alive and a preview
\* call that returns reports failure.
C10_MonitoringPreemptsPreview ==
    /\ MonitoringSession =>
          /\ ~snap_alive
          /\ _PREVIEW_CAPTURE # None => ~is_alive(_PREVIEW_CAPTURE[1])
    /\ (gui_ret.op \in PreviewOps /\ gui_ret.session \in
            {"pre", "loop", "retry_wait", "ensure", "ensure_start", "assign", "grace",
             "mark_running", "set_running", "poll"}) => ~gui_ret.ok

\* ------------------------------------------------------------------------
\* run(): the precondition failures
\* ------------------------------------------------------------------------
\* the status emitted for a missing profile, reference or camera selection
MissingPrecondition ==
    {"No profile selected", "No reference selected", "No camera selected"}

\* the step of run() that finds a precondition failed: it emits a status of
\* one of the kinds and calls mark_failed()
PreconditionFails(kinds) ==
    /\ pc["mon"] = "pre"
    /\ pc'["mon"] # "pre"
    /\ Len(status_log') = Len(status_log) + 1
    /\ status_log'[Len(status_log')].kind \in kinds
    /\ status_log'[Len(status_log')].text \in {"", "camera not found"}

\* nothing of the capture, the ownership or the retry loop is touched
NoCaptureAttempt ==
    /\ UNCHANGED <<caps, globalVars, ownerVars, attempt, cap>>
    /\ pc'["mon"] \notin {"loop", "retry_wait", "ensure", "ensure_start"}

\* the step that finds the profile, the reference or the camera selection
\* missing leaves the state machine in FAILED and attempts no capture
C11_Step ==
    PreconditionFails(MissingPrecondition) =>
        /\ svc_state' = "FAILED"
        /\ NoCaptureAttempt

\* C11: when the profile, the reference or the camera selection is missing,
\* run() emits that precondition's own status, the state machine goes to
\* FAILED, and no capture is attempted, no ownership is acquired and no retry
\* is made.
C11_MissingPreconditionFails == [][C11_Step]_vars


\* C12: when the stored camera selection resolves to no live candidate,
\* run() clears the stored selection, emits the camera-not-found status, the
\* state machine goes to FAILED, and no capture is attempted and no retry made.
C12_CameraNotFoundFails ==
    [][PreconditionFails({"Monitoring failed"}) =>
            /\ stored_camera /\ ~stored_camera'
            /\ status_log'[Len(status_log')].text = "camera not found"
            /\ svc_state' = "FAILED"
            /\ NoCaptureAttempt]_vars


\* ------------------------------------------------------------------------
\* the ownership arbiter, call by call
\* ------------------------------------------------------------------------
\* role r's call in progress returns in this step
ArbReturns(r, op) ==
    /\ Len(arb_hist'[r]) = Len(arb_hist[r]) + 1
    /\ arb_hist'[r][Len(arb_hist'[r])].op = op

ArbResult(r) == arb_hist'[r][Len(arb_hist'[r])]

OwnerRecord == <<_ACTIVE_OWNER_PIPELINE, _ACTIVE_CAMERA_TOKEN>>

\* an acquire that returns: it succeeds exactly when the arbiter is unowned
\* or owned by the same (role, token), and then the caller is the owner; a
\* refusal names the owning role and leaves the owner record as it was
C13_Step ==
    \A r \in Roles :
        ArbReturns(r, "acquire") =>
            LET e == ArbResult(r)
                free == \/ OwnerRecord = <<None, None>>
                        \/ OwnerRecord = <<Some(r), Some(e.token)>> IN
            /\ e.ok <=> free
            /\ e.ok => /\ OwnerRecord' = <<Some(r), Some(e.token)>>
                       /\ e.reason = None
            /\ ~e.ok => /\ e.reason = _ACTIVE_OWNER_PIPELINE
                        /\ e.reason # None
                        /\ UNCHANGED OwnerRecord

\* C13: acquire succeeds if the arbiter is unowned or already owned by the
\* same (role, token); otherwise it fails with a conflict reason naming the
\* current owner role and the owner record is unchanged.
C13_AcquireContract == [][C13_Step]_vars

\* a refusal of the other role, a re-acquire by the owner, and a refusal of
\* the owner's own role asking for another token have all happened
C13_Witness ==
    \E r \in Roles : \E o \in Roles \ {r} :
        /\ Len(arb_hist[r]) = 2 /\ Len(arb_hist[o]) = 2
        /\ arb_hist[r][1] = [op |-> "acquire", token |-> "cam1", ok |-> TRUE, reason |-> None]
        /\ arb_hist[r][2] = [op |-> "acquire", token |-> "cam2", ok |-> FALSE, reason |-> Some(r)]
        /\ arb_hist[o][1] = [op |-> "acquire", token |-> "cam1", ok |-> FALSE, reason |-> Some(r)]
        /\ arb_hist[o][2].op = "release"


\* a release that returns: with (role, token) equal to the owner record it
\* clears the record and stamps the release time; otherwise the record and
\* the last-release time stay as they were
C14_Step ==
    \A r \in Roles :
        ArbReturns(r, "release") =>
            LET e == ArbResult(r) IN
            IF OwnerRecord = <<Some(r), Some(e.token)>>
                THEN /\ OwnerRecord' = <<None, None>>
                     /\ _LAST_CAMERA_RELEASE_AT' = now
                ELSE UNCHANGED <<OwnerRecord, _LAST_CAMERA_RELEASE_AT>>

\* C14: release clears ownership and records a release timestamp only when
\* (role, token) equals the current owner; a non-matching release leaves the
\* owner record and the last-release timestamp unchanged.
C14_ReleaseContract == [][C14_Step]_vars

\* a matching release, then at a later time releases that match nothing (the
\* former owner with another token, and the other role) with the stamp kept
C14_Witness ==
    \E r \in Roles : \E o \in Roles \ {r} :
        /\ Len(arb_hist[r]) = 2 /\ Len(arb_hist[o]) = 2
        /\ arb_hist[r][1] = [op |-> "acquire", token |-> "cam1", ok |-> TRUE, reason |-> None]
        /\ arb_hist[r][2] = [op |-> "release", token |-> "cam1", ok |-> TRUE, reason |-> None]
        /\ arb_hist[o][1] = [op |-> "release", token |-> "cam1", ok |-> FALSE, reason |-> None]
        /\ arb_hist[o][2] = [op |-> "release", token |-> "cam2", ok |-> FALSE, reason |-> None]
        /\ _LAST_CAMERA_RELEASE_AT > 0
        /\ now > _LAST_CAMERA_RELEASE_AT
        /\ OwnerRecord = <<None, None>>




\* C15 as stated: an acquire of a token that takes effect does so no sooner
\* than the cooldown after the last effective release of that token.
C15_AcquireAfterCooldown ==
    [][\A r \in Roles :
        (ArbReturns(r, "acquire") /\ ArbResult(r).ok
                /\ arb_released[ArbResult(r).token] > 0) =>
            now >= arb_released[ArbResult(r).token] + _CAMERA_REOPEN_COOLDOWN_SEC]_vars

\* the cooldown wait that follows a successful acquire returns no sooner than
\* the cooldown after the last effective release (of any token), with the
\* caller still the owner
C15_Step ==
    \A r \in Roles :
        ArbReturns(r, "wait") =>
            /\ ArbResult(r).ok
            /\ now >= _LAST_CAMERA_RELEASE_AT + _CAMERA_REOPEN_COOLDOWN_SEC
            /\ \A t \in Tokens : now >= arb_released[t] + _CAMERA_REOPEN_COOLDOWN_SEC
            /\ OwnerRecord = <<Some(r), Some(ArbResult(r).token)>>

\* C15 amended: the acquire itself takes effect at once; the caller then
\* waits, holding ownership, and goes on to start its capture no sooner than
\* the cooldown after the release.
C15_OpenAfterCooldown == [][C15_Step]_vars

\* one role released cam1, the other acquired it at that very time and has
\* waited out the whole cooldown
C15_Witness ==
    \E r \in Roles : \E o \in Roles \ {r} :
        /\ arb_hist[r] = << [op |-> "acquire", token |-> "cam1", ok |-> TRUE, reason |-> None],
                            [op |-> "release", token |-> "cam1", ok |-> TRUE, reason |-> None] >>
        /\ arb_hist[o] = << [op |-> "acquire", token |-> "cam1", ok |-> TRUE, reason |-> None],
                            [op |-> "wait", token |-> "cam1", ok |-> TRUE, reason |-> None] >>
        /\ arb_released["cam1"] > 0
        /\ now = arb_released["cam1"] + _CAMERA_REOPEN_COOLDOWN_SEC
        /\ arb_wake[o] = now

\* ------------------------------------------------------------------------
\* the shared monitoring capture, call by call
\* ------------------------------------------------------------------------
\* a call of the kind returns in this step
RefReturns(op) ==
    /\ Len(ref_hist') = Len(ref_hist) + 1
    /\ ref_hist'[Len(ref_hist')].op = op

RefResult == ref_hist'[Len(ref_hist')]

\* the registered capture is a live process
GlobalAlive == _GLOBAL_CAPTURE # None /\ is_alive(_GLOBAL_CAPTURE[1])

\* stop() is called on a capture in this step
StopCalled(c) == caps'[c].stop_calls > caps[c].stop_calls

\* ensure with the token and config of the live registered capture returns
\* that capture and counts one more user, stopping and creating nothing
C16_Reuse ==
    (RefReturns("ensure") /\ GlobalAlive
            /\ _GLOBAL_INPUT_TOKEN = Some(RefResult.token)
            /\ _GLOBAL_CONFIG = RefResult.config) =>
        /\ RefResult.ret = _GLOBAL_CAPTURE
        /\ _GLOBAL_USERS' = _GLOBAL_USERS + 1
        /\ caps' = caps
        /\ UNCHANGED _GLOBAL_CAPTURE

\* a release stops the registered capture exactly when it takes the user
\* count from 1 to 0; any other release stops nothing and keeps it registered
C16_Release ==
    RefReturns("release") =>
        IF _GLOBAL_USERS = 1
            THEN /\ _GLOBAL_USERS' = 0
                 /\ _GLOBAL_CAPTURE' = None
                 /\ \A c \in 1..Len(caps) : StopCalled(c) <=> _GLOBAL_CAPTURE = Some(c)
                 /\ \A c \in 1..Len(caps) : ~is_alive(c)'
            ELSE /\ _GLOBAL_USERS' = Max(_GLOBAL_USERS - 1, 0)
                 /\ UNCHANGED <<_GLOBAL_CAPTURE, caps>>

\* an ensure that finds no capture registered and returns one has created
\* it: a new live process, never stopped, with one user
C16_New ==
    (RefReturns("ensure") /\ _GLOBAL_CAPTURE = None /\ RefResult.ret # None) =>
        /\ RefResult.ret = Some(Len(caps) + 1)
        /\ Len(caps') = Len(caps) + 1
        /\ caps'[Len(caps')] = NewCapture("monitoring", RefResult.token)
        /\ _GLOBAL_CAPTURE' = RefResult.ret
        /\ _GLOBAL_USERS' = 1

AtMostOneLive ==
    \A c1 \in 1..Len(caps) : \A c2 \in 1..Len(caps) :
        (c1 # c2 /\ is_alive(c1) /\ is_alive(c2)) =>
            <<caps[c1].pipeline, caps[c1].token>> # <<caps[c2].pipeline, caps[c2].token>>

\* a call that starts a process leaves no earlier process of its pipeline
\* alive, and one that was alive has had stop() called in the call
C17_Step ==
    (Len(caps') = Len(caps) + 1 /\ caps'[Len(caps')].alive) =>
        \A c \in 1..Len(caps) :
            caps[c].pipeline = caps'[Len(caps')].pipeline =>
                /\ ~caps'[c].alive
                /\ caps[c].alive => StopCalled(c)

Held(th) == {l \in LockNames : LockOf(l) = Some(th)}

\* C18 as stated: no operation holds more than one of the three resource
\* locks at the same time.
C18_OneLockAtATime == \A th \in Threads : Cardinality(Held(th)) <= 1

\* C18 amended: no operation holds the monitoring-capture lock and the
\* preview-capture lock at the same time; the arbiter lock is taken inside
\* either of them, and an operation holding the arbiter lock takes no other
\* lock before it has released it.
C18_ArbiterLockInnermost ==
    \A th \in Threads :
        /\ ~({"_GLOBAL_LOCK", "_PREVIEW_LOCK"} \subseteq Held(th))
        /\ "_CAMERA_OWNER_LOCK" \in Held(th) =>
                Head(lk[th].prog) = Release("_CAMERA_OWNER_LOCK")

\* one thread is inside _GLOBAL_LOCK and inside _CAMERA_OWNER_LOCK, the other
\* is inside _PREVIEW_LOCK waiting for the arbiter
C18_Witness ==
    /\ Held("mon") = {"_GLOBAL_LOCK", "_CAMERA_OWNER_LOCK"}
    /\ Held("gui") = {"_PREVIEW_LOCK"}
    /\ Head(lk["gui"].prog) = Acquire("_CAMERA_OWNER_LOCK")


\* ========================================================================
\* core/storage.py, core/detector.py: the debug_entries table
\* ========================================================================

\* datetime.isoformat leaves the fraction of a second out when it is zero
isoformat(t) ==
    LET second == t \div (MaxFrac + 1)
        microsecond == t % (MaxFrac + 1)
    IN IF microsecond = 0 THEN <<second>> ELSE <<second, microsecond>>

_now(clock) == isoformat(clock)

\* comparison of two TEXT values: the first position that differs decides,
\* and a proper prefix is the smaller one
TextLess(a, b) ==
    \E i \in 1..(Min(Len(a), Len(b)) + 1) :
        /\ \A j \in 1..(i - 1) : a[j] = b[j]
        /\ \/ i > Len(a) /\ i <= Len(b)
           \/ i <= Len(a) /\ i <= Len(b) /\ a[i] < b[i]

\* SELECT ... ORDER BY created_at ASC over the table in rowid order
RECURSIVE OrderByCreatedAt(_)
OrderByCreatedAt(table) ==
    IF table = <<>> THEN <<>>
    ELSE LET sorted == OrderByCreatedAt(SubSeq(table, 1, Len(table) - 1))
             row == table[Len(table)]
             k == Cardinality({i \in 1..Len(sorted) :
                                ~TextLess(row.created_at, sorted[i].created_at)})
         IN SubSeq(sorted, 1, k) \o <<row>> \o SubSeq(sorted, k + 1, Len(sorted))

RECURSIVE SumBytes(_)
SumBytes(rows) ==
    IF rows = <<>> THEN 0 ELSE Head(rows).size_bytes + SumBytes(Tail(rows))

add_debug_entry(table, id, size_bytes, clock) ==
    Append(table, [id |-> id, size_bytes |-> size_bytes, created_at |-> _now(clock)])

\* the while loop of prune_debug_entries: the ids it deletes
RECURSIVE PruneLoop(_, _, _, _, _)
PruneLoop(rows, total_bytes, removed, max_bytes, max_count) ==
    IF rows # <<>> /\ (total_bytes > max_bytes \/ Len(rows) > max_count)
    THEN PruneLoop(Tail(rows), total_bytes - Head(rows).size_bytes,
                   removed \cup {Head(rows).id}, max_bytes, max_count)
    ELSE removed

prune_debug_entries_mut(table, max_bytes, max_count) ==
    LET rows == OrderByCreatedAt(table)
    IN PruneLoop(rows, SumBytes(rows), {}, SumBytes(rows), max_count)

prune_debug_entries(table, max_bytes, max_count) ==
    LET rows == OrderByCreatedAt(table)
    IN PruneLoop(rows, SumBytes(rows), {}, max_bytes, max_count)

\* _save_debug_image_if_allowed once the image is written: the row is added
\* with the time read then, and the table is pruned to the two ceilings
DebugWrite(size_bytes, dt) ==
    /\ dbg.next_id <= MaxWrites
    /\ LET clock == dbg.clock + dt
           table == add_debug_entry(dbg.rows, dbg.next_id, size_bytes, clock)
           removed == prune_debug_entries(table, dbg.max_bytes, dbg.max_count)
       IN dbg' = [dbg EXCEPT !.rows = SelectSeq(table, LAMBDA row : row.id \notin removed),
                             !.removed = @ \cup removed,
                             !.clock = clock,
                             !.next_id = @ + 1]
    /\ UNCHANGED <<ladIn, ladOut, ladDone, det, sup, seq, smVars, busVars, ownerVars, arbVars, monVars>>

DebugInit ==
    /\ SMInitVals /\ BusInitVals /\ OwnerInitVals /\ ArbInitVals /\ MonInitVals
    /\ ladIn = [width |-> 320, height |-> 240, fps |-> 10, is_virtual |-> FALSE]
    /\ ladOut = <<>>
    /\ ladDone = FALSE
    /\ det = DetIdle
    /\ sup = SupIdle
    /\ seq = SeqIdle
    /\ \E max_bytes \in 0..(2 * MaxSize), max_count \in 0..MaxWrites :
          dbg = [DbgIdle EXCEPT !.max_bytes = max_bytes, !.max_count = max_count]
DebugNext == \E size_bytes \in 0..MaxSize, dt \in 1..(MaxFrac + 1) : DebugWrite(size_bytes, dt)
SpecDebug == DebugInit /\ [][DebugNext]_vars

\* C19: after every debug-image write the recorded bytes are at most the byte
\* ceiling, the number of entries is at most the count ceiling, and every
\* entry evicted so far was created before every entry that remains.
C19_DebugStorageBounded ==
    /\ SumBytes(dbg.rows) <= dbg.max_bytes
    /\ Len(dbg.rows) <= dbg.max_count
    /\ \A id \in dbg.removed : \A i \in 1..Len(dbg.rows) : id < dbg.rows[i].id

\* entries were evicted, two remain, and they fill the byte ceiling
C19_Witness ==
    /\ dbg.removed # {}
    /\ Len(dbg.rows) >= 2
    /\ SumBytes(dbg.rows) = dbg.max_bytes


\* ========================================================================
\* core/detector.py: _find_best_match and evaluate_frame
\* ========================================================================

GRID == 8
\* the canonical resolution (app/services/capture_constants.py)
CANONICAL_WIDTH == 64
CANONICAL_HEIGHT == 48
\* scores and thresholds in hundredths
COARSE_THRESHOLD_FACTOR == 75
COARSE_THRESHOLD_FLOOR == 45
\* 0.5 as <<numerator, denominator>>
FRAME_COARSE_SCALE == <<1, 2>>

\* int(v * FRAME_COARSE_SCALE) and int(v / FRAME_COARSE_SCALE) for v >= 0
TimesScale(v) == (v * FRAME_COARSE_SCALE[1]) \div FRAME_COARSE_SCALE[2]
OverScale(v) == (v * FRAME_COARSE_SCALE[2]) \div FRAME_COARSE_SCALE[1]

\* the search window of the full-resolution match along one axis
FineWindow(f, t, coarse) ==
    LET full == OverScale(coarse)
        margin == Max(8, t \div 2)
    IN [lo |-> Max(0, full - margin), hi |-> Min(f, full + t + margin)]

\* _find_best_match on a frame of fw x fh with one reference of tw x th;
\* in carries what cv2.minMaxLoc returns for the coarse and the fine match
_find_best_match(fw, fh, in) ==
    LET tw == in.tw
        th == in.th
        small_w == Max(1, TimesScale(fw))
        small_h == Max(1, TimesScale(fh))
        small_width == Max(1, TimesScale(tw))
        small_height == Max(1, TimesScale(th))
        coarse_threshold == Max(COARSE_THRESHOLD_FLOOR * 100, in.threshold * COARSE_THRESHOLD_FACTOR)
        wx == FineWindow(fw, tw, in.coarse_max_loc[1])
        wy == FineWindow(fh, th, in.coarse_max_loc[2])
        x == ((wx.lo + in.max_loc[1]) \div GRID) * GRID
        y == ((wy.lo + in.max_loc[2]) \div GRID) * GRID
        hit == [ref |-> Some("ref"), bbox |-> Some(<<x, y, tw, th>>), score |-> in.max_val]
        miss(best_score) == [ref |-> None, bbox |-> None, score |-> best_score]
    IN IF tw > fw \/ th > fh THEN miss(0)
       ELSE IF small_width > small_w \/ small_height > small_h THEN miss(0)
       ELSE IF in.coarse_max_val * 100 < coarse_threshold THEN miss(0)
       ELSE IF (wx.hi - wx.lo) < tw \/ (wy.hi - wy.lo) < th THEN miss(0)
       ELSE IF in.selected_reference /\ in.max_val >= in.threshold THEN hit
       ELSE IF in.max_val > 0 /\ in.max_val >= in.threshold THEN hit
       ELSE miss(Max(0, in.max_val))

\* the region of interest evaluate_frame crops to, None when none applies
ClampedRoi(stored) ==
    IF stored = None THEN None
    ELSE LET roi == stored[1]
             x0 == Max(0, Min(roi.x, CANONICAL_WIDTH - 1))
             y0 == Max(0, Min(roi.y, CANONICAL_HEIGHT - 1))
             x1 == Max(x0 + 1, Min(roi.x + roi.w, CANONICAL_WIDTH))
             y1 == Max(y0 + 1, Min(roi.y + roi.h, CANONICAL_HEIGHT))
         IN IF roi.w >= 10 /\ roi.h >= 10 /\ x1 - x0 >= 10 /\ y1 - y0 >= 10
            THEN Some([x |-> x0, y |-> y0, w |-> x1 - x0, h |-> y1 - y0])
            ELSE None

ProcessedSize(roi) ==
    IF roi = None THEN <<CANONICAL_WIDTH, CANONICAL_HEIGHT>> ELSE <<roi[1].w, roi[1].h>>

evaluate_frame(in) ==
    LET roi == ClampedRoi(in.roi)
        size == ProcessedSize(roi)
        found == _find_best_match(size[1], size[2], in)
        match_bbox ==
            IF found.bbox # None /\ roi # None
            THEN Some(<<found.bbox[1][1] + roi[1].x, found.bbox[1][2] + roi[1].y,
                        found.bbox[1][3], found.bbox[1][4]>>)
            ELSE found.bbox
    IN [matched |-> found.ref # None, confidence |-> found.score,
        found_bbox |-> found.bbox, match_bbox |-> match_bbox, roi |-> roi]

RoiOffsets == {4 * i : i \in 0..MaxRoi}
PeakLocs == {5 * i : i \in 0..MaxLoc}
StoredRois == {None} \cup {Some([x |-> x, y |-> y, w |-> 40, h |-> 32]) : x \in RoiOffsets, y \in RoiOffsets}

\* the peak locations lie inside the results of the two cv2.matchTemplate calls
PeaksInRange(in) ==
    LET size == ProcessedSize(ClampedRoi(in.roi))
        wx == FineWindow(size[1], in.tw, in.coarse_max_loc[1])
        wy == FineWindow(size[2], in.th, in.coarse_max_loc[2])
    IN /\ in.coarse_max_loc[1] <= Max(1, TimesScale(size[1])) - Max(1, TimesScale(in.tw))
       /\ in.coarse_max_loc[2] <= Max(1, TimesScale(size[2])) - Max(1, TimesScale(in.th))
       /\ in.max_loc[1] <= wx.hi - wx.lo - in.tw
       /\ in.max_loc[2] <= wy.hi - wy.lo - in.th

DetInputs ==
    {in \in [roi : StoredRois, selected_reference : BOOLEAN, tw : {16}, th : {16},
             threshold : {60, 80}, coarse_max_val : {50, 70}, max_val : {70, 90},
             coarse_max_loc : PeakLocs \X PeakLocs, max_loc : PeakLocs \X PeakLocs] :
        PeaksInRange(in)}

EvaluateFrame ==
    /\ ~det.done
    /\ det' = [det EXCEPT !.result = evaluate_frame(det.input), !.done = TRUE]
    /\ UNCHANGED <<ladIn, ladOut, ladDone, dbg, sup, seq, smVars, busVars, ownerVars, arbVars, monVars>>

DetInit ==
    /\ SMInitVals /\ BusInitVals /\ OwnerInitVals /\ ArbInitVals /\ MonInitVals
    /\ ladIn = [width |-> 320, height |-> 240, fps |-> 10, is_virtual |-> FALSE]
    /\ ladOut = <<>>
    /\ ladDone = FALSE
    /\ dbg = DbgIdle
    /\ sup = SupIdle
    /\ seq = SeqIdle
    /\ \E in \in DetInputs : det = [DetIdle EXCEPT !.input = in]
DetNext == EvaluateFrame
SpecDet == DetInit /\ [][DetNext]_vars

OnGrid(bbox) == bbox[1][1] % GRID = 0 /\ bbox[1][2] % GRID = 0

\* C20: for every matched frame, x and y of the bounding box that
\* _find_best_match returns and of the one evaluate_frame holds after adding
\* the region-of-interest offset are multiples of the 8-pixel grid.
C20_BoxOnGrid ==
    det.done /\ det.result.matched =>
        OnGrid(det.result.found_bbox) /\ OnGrid(det.result.match_bbox)


\* ------------------------------------------------------------------------
\* evaluate_frame with its DetectorState, the clock and the debug image;
\* times in ticks of 0.2 s
\* ------------------------------------------------------------------------

EXIT_TIMEOUT == 3
DEBUG_SAVE_INTERVAL_SECONDS == 5

new_detector_state ==
    [active_dialogue |-> None, event_active |-> FALSE, last_seen_time |-> 0,
     last_debug_frame |-> FALSE, debug_counter |-> 0, last_debug_save_time |-> 0]

\* debug is "no_dir" (get_debug_dir gives nothing), "write_failed"
\* (cv2.imwrite returns false) or "saved"
ShouldSaveDebug(state, at) ==
    ~state.event_active \/ at - state.last_debug_save_time >= DEBUG_SAVE_INTERVAL_SECONDS

\* the same with the reset taken one tick early
DetectorStateAfter_mut(in, state, at, debug) ==
    LET found == evaluate_frame(in)
        seen == [state EXCEPT !.last_seen_time = at, !.event_active = TRUE,
                              !.active_dialogue = Some("ref")]
    IN IF found.matched
       THEN seen
       ELSE IF state.active_dialogue # None /\ at - state.last_seen_time >= EXIT_TIMEOUT
            THEN [state EXCEPT !.active_dialogue = None, !.event_active = FALSE,
                               !.last_debug_frame = FALSE, !.last_debug_save_time = 0]
            ELSE state

\* the DetectorState evaluate_frame leaves behind
DetectorStateAfter(in, state, at, debug) ==
    LET found == evaluate_frame(in)
        seen == [state EXCEPT !.last_seen_time = at, !.event_active = TRUE,
                              !.active_dialogue = Some("ref")]
        counted == [seen EXCEPT !.debug_counter = @ + 1, !.last_debug_save_time = at]
    IN IF found.matched
       THEN IF ~ShouldSaveDebug(state, at) THEN seen
            ELSE IF debug = "no_dir" THEN seen
            ELSE IF debug = "write_failed" THEN counted
            ELSE [counted EXCEPT !.last_debug_frame = TRUE]
       ELSE IF state.active_dialogue # None /\ at - state.last_seen_time > EXIT_TIMEOUT
            THEN [state EXCEPT !.active_dialogue = None, !.event_active = FALSE,
                               !.last_debug_frame = FALSE, !.last_debug_save_time = 0]
            ELSE state

DetectionResult_mut(in, state, at, debug) ==
    LET found == evaluate_frame(in)
    IN [matched |-> found.matched /\ debug = "saved", confidence |-> found.confidence,
        reference |-> IF found.matched THEN Some("ref") ELSE None, timestamp |-> at,
        event_start |-> found.matched /\ ~state.event_active,
        debug_frame |-> found.matched /\ ShouldSaveDebug(state, at)]

\* the DetectionResult evaluate_frame returns
DetectionResult(in, state, at, debug) ==
    LET found == evaluate_frame(in)
    IN [matched |-> found.matched, confidence |-> found.confidence,
        reference |-> IF found.matched THEN Some("ref") ELSE None, timestamp |-> at,
        event_start |-> found.matched /\ ~state.event_active,
        debug_frame |-> found.matched /\ ShouldSaveDebug(state, at)]

DebugOutcomes == {"no_dir", "write_failed", "saved"}

\* one more call on the same frame, profile and reference, from a fresh state
EvaluateFresh(at, debug) ==
    /\ Len(det.calls) < MaxEvals
    /\ det' = [det EXCEPT !.calls = Append(@,
                  [now |-> at, debug |-> debug,
                   result |-> DetectionResult(det.input, new_detector_state, at, debug),
                   state |-> DetectorStateAfter(det.input, new_detector_state, at, debug)])]
    /\ UNCHANGED <<ladIn, ladOut, ladDone, dbg, sup, seq, smVars, busVars, ownerVars, arbVars, monVars>>

EvalNext == \E at \in 1..MaxTime, debug \in DebugOutcomes : EvaluateFresh(at, debug)
SpecEval == DetInit /\ [][EvalNext]_vars

DefinedEdges ==
    {<<"IDLE", "STARTING">>, <<"STARTING", "RUNNING">>, <<"STARTING", "FAILED">>,
     <<"RUNNING", "FAILED">>, <<"RUNNING", "STOPPING">>, <<"FAILED", "STOPPING">>,
     <<"STOPPING", "IDLE">>}

C22_Step ==
    svc_state' # svc_state =>
        /\ <<svc_state, svc_state'>> \in DefinedEdges
        /\ svc_state' = "RUNNING" => pc["mon"] = "mark_running" /\ _capture = Some(cap)

\* C22: over run() and stop() calls, stop() from the GUI thread during
\* STARTING included, every change of the monitoring state follows a defined
\* edge, and RUNNING is entered only from STARTING by run() once the grace
\* loop has ended with the capture alive.
C22_DefinedEdges == [][C22_Step]_vars


\* 'Monitoring retrying (k/N)' statuses emitted so far
RetryingCount(k) ==
    Cardinality({i \in DOMAIN status_log :
                    status_log[i] = Status("Monitoring retrying", "", 0, k)})

\* run() calls _ensure_global_capture
AttemptStarts == pc["mon"] = "ensure" /\ pc'["mon"] # "ensure"

C23_Step ==
    /\ AttemptStarts =>
          /\ attempt \in 1..2
          /\ attempt > 1 => RetryingCount(attempt) >= 1
    /\ \A k \in 0..(MaxRuns + 3) :
          RetryingCount(k)' <= (IF k = 2 THEN runs' ELSE 0)

\* C23: one run() starts a capture at most 2 times, whether the attempts
\* fail during startup or the process dies after RUNNING, and the status
\* 'Monitoring retrying (2/2)' is emitted exactly once before the second
\* attempt (never more than one such status per run, none for another attempt).
C23_RetryBudget == [][C23_Step]_vars

\* the first capture died after RUNNING was entered and the second attempt
\* has started its capture
C23_Witness ==
    /\ pc["mon"] = "grace"
    /\ attempt = 2
    /\ svc_state = "RUNNING"
    /\ RetryingCount(2) = 1


\* run() reaches mark_running on a later attempt, after the capture of an
\* earlier attempt died in RUNNING, with no stop requested
RetryAfterRunning ==
    /\ pc["mon"] = "mark_running"
    /\ pc'["mon"] # "mark_running"
    /\ attempt > 1
    /\ svc_state = "RUNNING"
    /\ ~_stop_event

C24_Step ==
    RetryAfterRunning =>
        /\ svc_state' = "RUNNING"
        /\ pc'["mon"] = "set_running"
        /\ status_log' = status_log

\* C24: when the capture died in RUNNING with attempts left and the next
\* attempt's capture stayed alive through the grace loop, monitoring goes on
\* in RUNNING: no exception, no FAILED transition, no 'Monitoring failed'
\* status.
C24_RetryContinuesRunning == [][C24_Step]_vars


\* the retry loop has ended without a stop request, the budget used up, and
\* the last capture died after RUNNING was entered
DiedRunningNoAttemptsLeft ==
    /\ pc["mon"] = "after_join"
    /\ pc'["mon"] # "after_join"
    /\ attempt > max_retries
    /\ svc_state = "RUNNING"

C25_Step ==
    DiedRunningNoAttemptsLeft =>
        /\ svc_state' = "FAILED"
        /\ status_log' = Append(status_log, FailedStatus(failure_reason))

\* C25: when the capture dies in RUNNING and no attempt is left, run() moves
\* the state machine to FAILED and emits 'Monitoring failed: <diagnostic>'.
C25_ExhaustedFails == [][C25_Step]_vars


\* run() handles the FfmpegNotFoundError raised by the start of the capture
ExecutableMissing ==
    /\ pc["mon"] = "except_not_found"
    /\ pc'["mon"] # "except_not_found"

C26_Step ==
    ExecutableMissing =>
        /\ status_log' = Append(status_log, Status("Monitoring failed", "FFmpeg not found", 0, 0))
        /\ svc_state' = "FAILED"
        /\ pc'["mon"] = "finally"
        /\ _GLOBAL_CAPTURE' = None

\* C26: when the capture cannot be spawned because the executable is
\* missing, run() makes no further attempt, emits 'Monitoring failed: FFmpeg
\* not found (...)' and moves the state machine to FAILED.
C26_ExecutableNotFoundFails == [][C26_Step]_vars


\* the monitor thread (its captures write no ERROR line) against GUI calls
\* of capture_preview_snapshot and of MonitorService.stop()
ConflictNext ==
    \/ GuiStartRun
    \/ RunStart
    \/ \E th \in Threads : PauseFlag(th)
    \/ \E th \in Threads : PauseRelease(th)
    \/ RunPreconditions
    \/ RunLoop
    \/ RunRetryWait
    \/ EnsureGlobalAcquire
    \/ EnsureGlobalStart
    \/ RunAssign
    \/ RunGrace
    \/ RunAttemptRelease
    \/ RunAttemptClear
    \/ RunMarkRunning
    \/ RunSetRunning
    \/ RunPoll
    \/ RunAfterLoop
    \/ RunReportFailure
    \/ RunExceptNotFound
    \/ RunExcept
    \/ RunFinally
    \/ Resume
    \/ \E th \in Threads : StopEntry(th)
    \/ \E th \in Threads : StopRequest(th)
    \/ \E th \in Threads : StopSignal(th)
    \/ \E th \in Threads : StopRelease(th)
    \/ \E th \in Threads : StopReleased(th)
    \/ \E th \in Threads : StopIdle(th)
    \/ CapDies
    \/ GuiCallStop
    \/ GuiSnapshot
    \/ SnapshotAcquire
    \/ SnapshotDone
SpecConflict == Init /\ [][ConflictNext]_vars

\* run() handles the RuntimeError of _ensure_global_capture whose acquire
\* was refused
AcquireRejected ==
    /\ pc["mon"] = "except"
    /\ pc'["mon"] # "except"
    /\ exc = "owned by preview"

C27_Step ==
    AcquireRejected =>
        /\ status_log' = Append(status_log, Status("Monitoring failed", "owned by preview", 0, 0))
        /\ svc_state' = "FAILED"
        /\ pc'["mon"] = "finally"

\* C27: when monitoring's acquire is refused because preview owns the
\* camera, run() emits 'Monitoring failed: <reason naming the owner>', moves
\* the state machine to FAILED and goes to its finally block without another
\* acquire or capture attempt.
C27_ConflictFails == [][C27_Step]_vars


\* ---------------------------------------------------------------------------
\* app/services/ffmpeg_capture_supervisor.py: FfmpegCaptureSupervisor.stop
\*
\* One supervisor and its ffmpeg child.  terminate() and kill() deliver a
\* signal and return at once; the child leaves the process table in a step of
\* its own (SupProcExits), which a child that honours SIGTERM takes after
\* terminate() and every child takes at some time after kill().  wait(timeout)
\* and join(timeout) are the only calls of stop() that block.
\* ---------------------------------------------------------------------------

\* is_alive(): process is set and poll() is None
sup_is_alive(s) == s.process = "running"

SupLog(s, ev) == Append(s.trace, ev)

\* start(): Popen, then the stop flag is cleared and both threads are started;
\* a missing executable raises FfmpegNotFoundError before anything is set
SupStart ==
    /\ sup.process = "none"
    /\ sup.pc = "idle"
    /\ sup.calls = 0
    /\ sup' = [sup EXCEPT !.process = "running", !._stop = FALSE,
                          !.reader = "running", !.stderr = "running"]
    /\ UNCHANGED <<ladIn, ladOut, ladDone, dbg, det, seq, smVars, busVars, ownerVars, arbVars, monVars>>

\* the child ends: by itself, on SIGTERM, or on SIGKILL
SupProcExits ==
    /\ sup.process = "running"
    /\ sup' = [sup EXCEPT !.process = "exited"]
    /\ UNCHANGED <<ladIn, ladOut, ladDone, dbg, det, seq, smVars, busVars, ownerVars, arbVars, monVars>>

\* _reader_loop leaves its loop at end of stream, or at the loop test once the
\* stop flag is set; its finally block terminates a live child unless the
\* stop flag is set
SupReaderEnds ==
    /\ sup.reader = "running"
    /\ sup.process = "exited" \/ sup._stop
    /\ sup' = [sup EXCEPT !.reader = "done",
                          !.terminated = @ \/ (sup_is_alive(sup) /\ ~sup._stop)]
    /\ UNCHANGED <<ladIn, ladOut, ladDone, dbg, det, seq, smVars, busVars, ownerVars, arbVars, monVars>>

\* _stderr_loop ends at end of stream, or after a line read with the flag set
SupStderrEnds ==
    /\ sup.stderr = "running"
    /\ sup.process = "exited" \/ sup._stop
    /\ sup' = [sup EXCEPT !.stderr = "done"]
    /\ UNCHANGED <<ladIn, ladOut, ladDone, dbg, det, seq, smVars, busVars, ownerVars, arbVars, monVars>>

\* stop(): self._stop.set()
SupStopCall ==
    /\ sup.pc = "idle"
    /\ sup.calls < MaxStopCalls
    /\ sup' = [sup EXCEPT !._stop = TRUE, !.pc = "poll", !.calls = @ + 1,
                          !.trace = <<"set_stop">>]
    /\ UNCHANGED <<ladIn, ladOut, ladDone, dbg, det, seq, smVars, busVars, ownerVars, arbVars, monVars>>

\* stop(): if self.process and self.process.poll() is None: terminate()
SupStopPoll ==
    /\ sup.pc = "poll"
    /\ sup' = IF sup_is_alive(sup)
              THEN [sup EXCEPT !.terminated = TRUE, !.pc = "wait",
                               !.trace = SupLog(sup, "terminate")]
              ELSE [sup EXCEPT !.pc = "join_reader"]
    /\ UNCHANGED <<ladIn, ladOut, ladDone, dbg, det, seq, smVars, busVars, ownerVars, arbVars, monVars>>

\* stop(): wait(timeout) returns once the child has ended; otherwise it raises
\* TimeoutExpired after timeout seconds and the handler calls kill()
SupStopWait ==
    /\ sup.pc = "wait"
    /\ sup' = IF sup_is_alive(sup)
              THEN [sup EXCEPT !.killed = TRUE, !.pc = "join_reader",
                               !.trace = SupLog(sup, "kill")]
              ELSE [sup EXCEPT !.pc = "join_reader", !.trace = SupLog(sup, "waited")]
    /\ UNCHANGED <<ladIn, ladOut, ladDone, dbg, det, seq, smVars, busVars, ownerVars, arbVars, monVars>>

\* stop(): self._reader_thread.join(timeout=timeout) returns when the thread
\* has ended or the timeout has passed
SupStopJoinReader ==
    /\ sup.pc = "join_reader"
    /\ sup' = [sup EXCEPT !.pc = "join_stderr",
                          !.trace = IF sup.reader = "none" THEN @ ELSE SupLog(sup, "join_reader")]
    /\ UNCHANGED <<ladIn, ladOut, ladDone, dbg, det, seq, smVars, busVars, ownerVars, arbVars, monVars>>

\* stop(): self._stderr_thread.join(timeout=timeout), then stop() returns
SupStopJoinStderr ==
    /\ sup.pc = "join_stderr"
    /\ sup' = [sup EXCEPT !.pc = "idle",
                          !.trace = IF sup.stderr = "none" THEN @ ELSE SupLog(sup, "join_stderr")]
    /\ UNCHANGED <<ladIn, ladOut, ladDone, dbg, det, seq, smVars, busVars, ownerVars, arbVars, monVars>>

SupNext ==
    \/ SupStart
    \/ SupProcExits
    \/ SupReaderEnds
    \/ SupStderrEnds
    \/ SupStopCall
    \/ SupStopPoll
    \/ SupStopWait
    \/ SupStopJoinReader
    \/ SupStopJoinStderr

SupInit == SMInitVals /\ BusInitVals /\ OwnerInitVals /\ ArbInitVals /\ MonInitVals /\ LadInitVals

SpecSup == SupInit /\ [][SupNext]_vars

\* stop() has returned at least once and is not running
SupStopReturned == sup.calls > 0 /\ sup.pc = "idle"

\* C28: when stop(timeout) returns, the child process is no longer alive
C28_StoppedNotAlive == SupStopReturned => ~sup_is_alive(sup)

\* the order of stop()'s steps: flag first, terminate before the wait and the
\* kill, both joins last; a child still alive at the return has been killed
SupStopOrder ==
    SupStopReturned =>
        /\ \E head \in {<<"set_stop">>, <<"set_stop", "terminate", "waited">>,
                         <<"set_stop", "terminate", "kill">>} :
              \E tail \in {<<>>, <<"join_reader", "join_stderr">>} :
                 sup.trace = head \o tail
        /\ (sup_is_alive(sup) => sup.killed)


\* ---------------------------------------------------------------------------
\* MonitorService.stop() and the preview pause: progress of the two threads
\* ---------------------------------------------------------------------------

\* the steps of the thread that executes run()
MonSteps ==
    \/ RunStart
    \/ PauseFlag("mon")
    \/ PauseRelease("mon")
    \/ RunPreconditions
    \/ RunLoop
    \/ RunRetryWait
    \/ EnsureGlobalAcquire
    \/ EnsureGlobalStart
    \/ RunAssign
    \/ RunDrain
    \/ RunGrace
    \/ RunAttemptRelease
    \/ RunAttemptClear
    \/ RunMarkRunning
    \/ RunSetRunning
    \/ RunPoll
    \/ RunAfterLoop
    \/ RunReportFailure
    \/ RunExceptNotFound
    \/ RunExcept
    \/ RunFinally
    \/ Resume
    \/ StopEntry("mon")
    \/ StopRequest("mon")
    \/ StopSignal("mon")
    \/ StopRelease("mon")
    \/ StopReleased("mon")
    \/ StopIdle("mon")

\* the steps of a stop() call made by the GUI thread
GuiStopSteps ==
    \/ StopEntry("gui")
    \/ StopRequest("gui")
    \/ StopSignal("gui")
    \/ StopRelease("gui")
    \/ StopReleased("gui")
    \/ StopIdle("gui")

\* both threads are scheduled: a call in progress goes on
SpecLive == Init /\ [][Next]_vars /\ WF_vars(MonSteps) /\ WF_vars(GuiStopSteps)

\* the last stop() call of the GUI thread found a state other than IDLE and
\* STOPPING, has returned, and no run() has been started since
GuiStopCompleted ==
    /\ Len(gui_hist) > 0
    /\ gui_hist[Len(gui_hist)].done
    /\ ~StopIsNoop(gui_hist[Len(gui_hist)].entry)
    /\ gui_hist[Len(gui_hist)].run = runs

\* the stop() call in the finally block of run() has returned
RunStopCompleted == pc["mon"] = "resume"

\* C29: after a stop() call has completed, from the GUI thread in a state
\* other than IDLE and STOPPING or from run()'s finally block on any path,
\* the paused-for-monitoring flag is cleared
C29_ResumedAfterStop ==
    (GuiStopCompleted \/ RunStopCompleted) ~> ~_PREVIEW_PAUSED_FOR_MONITORING


\* ---------------------------------------------------------------------------
\* run() against a concurrent stop(): what is left once both have returned
\* ---------------------------------------------------------------------------

\* run() has returned, no call of the GUI thread is in progress, and the GUI
\* thread made a stop() call that got past its IDLE / STOPPING test after this
\* run() was started
RunAndStopReturned ==
    /\ runs > 0
    /\ pc["mon"] = "idle"
    /\ pc["gui"] = "idle"
    /\ \E i \in 1..Len(gui_hist) :
          /\ gui_hist[i].run = runs
          /\ gui_hist[i].done
          /\ ~StopIsNoop(gui_hist[i].entry)

\* a capture process started for monitoring is alive
MonitoringCaptureAlive ==
    \E c \in 1..Len(caps) : caps[c].pipeline = "monitoring" /\ caps[c].alive

\* C30: once run() and a stop() call made from the GUI thread while it ran have
\* both returned, no monitoring capture process is alive, the monitoring user
\* count is 0 and monitoring does not own the camera
C30_NothingLeftRunning ==
    RunAndStopReturned =>
        /\ ~MonitoringCaptureAlive
        /\ _GLOBAL_USERS = 0
        /\ _ACTIVE_OWNER_PIPELINE # Some("monitoring")


\* ---------------------------------------------------------------------------
\* core/detector.py: evaluate_frame over a sequence of frames, one DetectorState
\*
\* The clock counts ticks of 0.2 s (EXIT_TIMEOUT 0.6 s = 3, the debug save
\* interval 1.0 s = 5); time.time() read by two successive calls differs by
\* 0..MaxGap ticks and does not go back.
\* ---------------------------------------------------------------------------

\* the frames of a sequence: no region of interest, peaks at the origin, and
\* scores that make the frame match or not
SeqFrames ==
    {in \in DetInputs : /\ in.roi = None
                        /\ ~in.selected_reference
                        /\ in.threshold = 80
                        /\ in.coarse_max_val = 70
                        /\ in.coarse_max_loc = <<0, 0>>
                        /\ in.max_loc = <<0, 0>>}

\* logging.warning("Failed to write debug image; continuing monitoring.")
\* calls made by one evaluate_frame call (line 149-151, 167-171)
DebugWarnings(in, state, at, debug) ==
    IF evaluate_frame(in).matched /\ ShouldSaveDebug(state, at) /\ debug = "write_failed"
    THEN 1 ELSE 0

\* the first time.time() read is at least one save interval and one exit
\* timeout away from the 0.0 of a fresh DetectorState
SeqInit ==
    /\ SMInitVals /\ BusInitVals /\ OwnerInitVals /\ ArbInitVals /\ MonInitVals
    /\ ladIn = [width |-> 320, height |-> 240, fps |-> 10, is_virtual |-> FALSE]
    /\ ladOut = <<>>
    /\ ladDone = FALSE
    /\ dbg = DbgIdle
    /\ det = DetIdle
    /\ sup = SupIdle
    /\ seq = [SeqIdle EXCEPT !.state = new_detector_state,
                             !.now = EXIT_TIMEOUT + DEBUG_SAVE_INTERVAL_SECONDS]

\* evaluate_frame(profile, frame, state) on the next frame of the sequence
EvaluateNext(in, gap, debug) ==
    LET at == seq.now + gap
        after == DetectorStateAfter(in, seq.state, at, debug)
        result == DetectionResult(in, seq.state, at, debug)
        warned == DebugWarnings(in, seq.state, at, debug)
        saved == result.matched /\ ShouldSaveDebug(seq.state, at) /\ debug = "saved"
    IN /\ seq.frames < MaxFrames
       /\ seq' = [state |-> after, now |-> at, frames |-> seq.frames + 1,
                  before |-> Some(seq.state), result |-> Some(result), debug |-> Some(debug),
                  warnings |-> IF result.matched /\ ~saved THEN seq.warnings + warned ELSE 0,
                  streak |-> IF result.matched /\ ~saved THEN seq.streak + 1 ELSE 0]
       /\ UNCHANGED <<ladIn, ladOut, ladDone, dbg, det, sup, smVars, busVars, ownerVars, arbVars, monVars>>

SeqNext == \E in \in SeqFrames, gap \in 0..MaxGap, debug \in DebugOutcomes : EvaluateNext(in, gap, debug)

SpecSeq == SeqInit /\ [][SeqNext]_vars


\* a frame of the sequence has been evaluated in this step
FrameEvaluated == seq'.frames = seq.frames + 1

C31_Step ==
    FrameEvaluated =>
        LET b == seq.state
            a == seq'.state
            r == seq'.result[1]
            gap == seq'.now - b.last_seen_time
            matched_before == b.last_seen_time > 0
        IN /\ r.matched => /\ r.event_start <=> ~b.event_active
                           /\ a.event_active
                           /\ a.active_dialogue = r.reference
           /\ ~r.matched => ~r.event_start
           /\ (r.matched /\ matched_before /\ gap <= EXIT_TIMEOUT) =>
                 /\ b.event_active
                 /\ ~r.event_start
                 /\ a.active_dialogue = b.active_dialogue
           /\ ((b.event_active /\ ~a.event_active) \/ (b.active_dialogue # None /\ a.active_dialogue = None)) =>
                 /\ ~r.matched
                 /\ matched_before
                 /\ gap > EXIT_TIMEOUT
                 /\ ~a.event_active /\ a.active_dialogue = None

\* C31: over any sequence of evaluated frames, a matching frame reports
\* event_start exactly when the detector was not in an event before it and
\* sets event_active; a matching frame at most the exit timeout after the last
\* match continues the event with no new event start; the active reference and
\* event_active are reset only by a non-matching frame evaluated more than the
\* exit timeout after the last match.
C31_EventLifecycle == [][C31_Step]_vars

\* an event started, was reset by a late non-matching frame, and the fourth
\* frame starts a new event
C31_Witness ==
    /\ seq.frames = 4
    /\ seq.result[1].matched /\ seq.result[1].event_start
    /\ seq.before[1].last_seen_time > 0
    /\ ~seq.before[1].event_active
    /\ seq.before[1].active_dialogue = None


\* C32: when the debug image cannot be written on consecutive matching frames,
\* every frame still gets its detection result, and the write failure is
\* logged once: the warnings logged since the last frame that did not match or
\* whose image was saved number at most one
C32_FailureLoggedOnce ==
    /\ seq.frames > 0 => seq.result # None
    /\ seq.warnings <= 1


\* ---------------------------------------------------------------------------
\* app/services/frame_bus.py: FrameQueue with one producer and several
\* consumers inside get(timeout)
\*
\* Every method body runs under self._cv, so each is one step, except get,
\* which gives the mutex up inside self._cv.wait(timeout) and takes it again
\* after a notify_all or after the timeout.  A consumer's elapsed counts the
\* clock ticks since its get call began to wait.
\* ---------------------------------------------------------------------------

GetTimeouts == {None} \cup {Some(t) : t \in 1..MaxWait}

\* get line 53 with the entry left in the queue
popleft_mut(q) == [queue |-> q, ret |-> Head(q)]

\* get line 53: self._queue.popleft()
popleft(q) == [queue |-> Tail(q), ret |-> Head(q)]

\* a get call returns ret to consumer c
GetReturns(c, ret, blocked) ==
    bq_gets' = [cons |-> [bq_gets.cons EXCEPT ![c] = [pc |-> "idle", timeout |-> None, elapsed |-> 0]],
                taken |-> IF ret = None THEN bq_gets.taken ELSE Append(bq_gets.taken, ret[1]),
                last |-> [consumer |-> c, ret |-> ret, blocked |-> blocked,
                          timeout |-> bq_gets.cons[c].timeout, elapsed |-> bq_gets.cons[c].elapsed]]

\* get line 48-50: under the mutex, an empty queue sends the caller into
\* self._cv.wait(timeout); otherwise line 53 takes the oldest entry
MtGetCall(c, timeout) ==
    /\ bq_ops < MaxOps
    /\ bq_gets.cons[c].pc = "idle"
    /\ bq_ops' = bq_ops + 1
    /\ IF bq_queue = <<>>
          THEN /\ bq_gets' = [bq_gets EXCEPT !.cons[c] = [pc |-> "waiting", timeout |-> timeout, elapsed |-> 0]]
               /\ UNCHANGED <<bq_queue, bq_last, bq_removed>>
          ELSE LET r == popleft(bq_queue) IN
               /\ bq_queue' = r.queue
               /\ bq_last' = [op |-> "get", ret |-> Some(r.ret), before |-> bq_queue]
               /\ bq_removed' = TRUE
               /\ bq_gets' = [bq_gets EXCEPT !.taken = Append(@, r.ret),
                                             !.last = [consumer |-> c, ret |-> Some(r.ret), blocked |-> FALSE,
                                                       timeout |-> timeout, elapsed |-> 0]]
    /\ UNCHANGED <<bq_impl, bq_policy, bq_maxlen, bq_dropped_frames, bq_dropped, bq_stale, bq_puts,
                   smVars, ladVars, ownerVars, arbVars, monVars>>

\* put that counts dropped frames under last_only alone
MtPut_mut ==
    /\ bq_puts < MaxPuts
    /\ LET packet == bq_puts + 1
           r == put(bq_policy, bq_maxlen, bq_queue, packet)
       IN /\ bq_queue' = r.queue
          /\ bq_dropped' = bq_dropped + r.evicted
          /\ bq_dropped_frames' = bq_dropped_frames + (IF bq_policy = "last_only" THEN r.evicted ELSE 0)
          /\ bq_last' = [op |-> "put", ret |-> Some(packet), before |-> bq_queue]
    /\ bq_puts' = bq_puts + 1
    /\ bq_gets' = [bq_gets EXCEPT !.cons = [c \in Consumers |->
                        IF @[c].pc = "waiting" THEN [@[c] EXCEPT !.pc = "woken"] ELSE @[c]]]
    /\ UNCHANGED <<bq_impl, bq_policy, bq_maxlen, bq_stale, bq_ops, bq_removed,
                   smVars, ladVars, ownerVars, arbVars, monVars>>

\* put: the body of BusPut, and notify_all wakes every consumer in wait
MtPut ==
    /\ bq_puts < MaxPuts
    /\ LET packet == bq_puts + 1
           r == put(bq_policy, bq_maxlen, bq_queue, packet)
       IN /\ bq_queue' = r.queue
          /\ bq_dropped' = bq_dropped + r.evicted
          /\ bq_dropped_frames' = bq_dropped_frames + r.evicted
          /\ bq_last' = [op |-> "put", ret |-> Some(packet), before |-> bq_queue]
    /\ bq_puts' = bq_puts + 1
    /\ bq_gets' = [bq_gets EXCEPT !.cons = [c \in Consumers |->
                        IF @[c].pc = "waiting" THEN [@[c] EXCEPT !.pc = "woken"] ELSE @[c]]]
    /\ UNCHANGED <<bq_impl, bq_policy, bq_maxlen, bq_stale, bq_ops, bq_removed,
                   smVars, ladVars, ownerVars, arbVars, monVars>>

\* a clock tick: it counts for every consumer inside get whose timeout has
\* not passed, and a wait whose timeout passes now ends
MtTick ==
    /\ \E c \in Consumers : /\ bq_gets.cons[c].pc # "idle"
                            /\ bq_gets.cons[c].timeout # None
                            /\ bq_gets.cons[c].elapsed < bq_gets.cons[c].timeout[1]
    /\ bq_gets' = [bq_gets EXCEPT !.cons = [c \in Consumers |->
            LET w == @[c] IN
            IF w.pc = "idle" \/ w.timeout = None \/ w.elapsed >= w.timeout[1] THEN w
            ELSE [w EXCEPT !.elapsed = @ + 1,
                           !.pc = IF w.elapsed + 1 = w.timeout[1] THEN "woken" ELSE w.pc]]]
    /\ UNCHANGED <<bq_impl, bq_policy, bq_maxlen, bq_queue, bq_dropped_frames, bq_dropped, bq_stale,
                   bq_puts, bq_ops, bq_removed, bq_last, smVars, ladVars, ownerVars, arbVars, monVars>>

\* get line 51-53: wait has returned and the mutex is held again; an empty
\* queue gives None, otherwise the oldest entry is taken
MtGetResume(c) ==
    /\ bq_gets.cons[c].pc = "woken"
    /\ IF bq_queue = <<>>
          THEN /\ GetReturns(c, None, TRUE)
               /\ bq_last' = [op |-> "get", ret |-> None, before |-> bq_queue]
               /\ UNCHANGED bq_queue
          ELSE LET r == popleft(bq_queue) IN
               /\ GetReturns(c, Some(r.ret), TRUE)
               /\ bq_last' = [op |-> "get", ret |-> Some(r.ret), before |-> bq_queue]
               /\ bq_queue' = r.queue
    /\ bq_removed' = TRUE
    /\ UNCHANGED <<bq_impl, bq_policy, bq_maxlen, bq_dropped_frames, bq_dropped, bq_stale, bq_puts,
                   bq_ops, smVars, ladVars, ownerVars, arbVars, monVars>>

MtInit ==
    /\ SMInitVals /\ LadInitVals /\ OwnerInitVals /\ ArbInitVals /\ MonInitVals
    /\ bq_impl = "frame_bus"
    /\ bq_policy \in OverflowPolicy
    /\ \E requested \in 0..MaxCap : bq_maxlen = Max(1, requested)
    /\ bq_queue = <<>>
    /\ bq_dropped_frames = 0
    /\ bq_dropped = 0
    /\ bq_stale = FALSE
    /\ bq_puts = 0
    /\ bq_ops = 0
    /\ bq_removed = FALSE
    /\ bq_last = [op |-> "init", ret |-> None, before |-> <<>>]
    /\ bq_gets = GetsIdle

MtNext ==
    \/ MtPut
    \/ \E c \in Consumers, timeout \in GetTimeouts : MtGetCall(c, timeout)
    \/ \E c \in Consumers : MtGetResume(c)
    \/ MtTick
    \/ BusPeekLatest
    \/ BusClear
    \/ BusSize

SpecBusMt == MtInit /\ [][MtNext]_vars


\* the packets still queued
Queued == {bq_queue[i] : i \in 1..Len(bq_queue)}

\* C33: with one producer and several consumers in get, every packet put is
\* returned by at most one get, a returned packet is no longer queued, and the
\* packets returned leave the queue in the order they were put
C33_ExactlyOnceInOrder ==
    /\ \A i, j \in 1..Len(bq_gets.taken) : i < j => bq_gets.taken[i] < bq_gets.taken[j]
    /\ \A i \in 1..Len(bq_gets.taken) : bq_gets.taken[i] \notin Queued
    /\ \A i \in 1..Len(bq_gets.taken) : bq_gets.taken[i] \in 1..bq_puts

\* two packets were returned, the last to a consumer that had waited, while
\* another consumer is inside get as well
C33_Witness ==
    /\ Len(bq_gets.taken) = 2
    /\ bq_gets.last.blocked /\ bq_gets.last.ret # None
    /\ \E c \in Consumers : c # bq_gets.last.consumer /\ bq_gets.cons[c].pc # "idle"
    /\ bq_dropped_frames > 0


\* the entries a step removed from the queue to make room: those queued
\* before, plus the one put, minus those queued after
EvictedByStep == Len(bq_queue) + 1 - Len(bq_queue')

C34_Step ==
    /\ bq_dropped_frames' >= bq_dropped_frames
    /\ bq_dropped_frames' # bq_dropped_frames => bq_puts' = bq_puts + 1
    /\ bq_puts' = bq_puts + 1 => bq_dropped_frames' = bq_dropped_frames + EvictedByStep
    /\ bq_dropped' = bq_dropped_frames'

\* C34: dropped_frames of the frame bus never decreases under any interleaving
\* of put, get, peek_latest, clear and size; it grows only in put, by the
\* number of entries that put evicted; the alias dropped always equals it
C34_DroppedMonotone == [][C34_Step]_vars /\ [](bq_dropped = bq_dropped_frames)

\* a full drop_oldest queue of capacity two evicted its oldest entry in a put
\* for the second time, after two other calls and with a consumer inside get
C34_Witness ==
    /\ bq_policy = "drop_oldest" /\ bq_maxlen = 2
    /\ bq_last.op = "put" /\ Len(bq_last.before) = 2
    /\ bq_dropped_frames = 2
    /\ bq_ops >= 2
    /\ \E c \in Consumers : bq_gets.cons[c].pc # "idle"


\* C40: a get(timeout) call that blocked on an empty frame bus returns None
\* only when its whole timeout has passed
C40_NoneOnlyAfterTimeout ==
    (bq_gets.last.blocked /\ bq_gets.last.ret = None) =>
        /\ bq_gets.last.timeout # None
        /\ bq_gets.last.elapsed = bq_gets.last.timeout[1]


\* capture_preview_snapshot returns in this step from a call whose
\* _acquire_camera_owner succeeded at least once
SnapshotReturnsAfterAcquire ==
    /\ gui_op = "capture_preview_snapshot"
    /\ pc["gui"] \in {"sn_acquire", "sn_capture"}
    /\ pc'["gui"] = "idle"
    /\ pc["gui"] = "sn_capture" \/ gui_arg.attempt > 1

C35_Step ==
    SnapshotReturnsAfterAcquire =>
        /\ _ACTIVE_OWNER_PIPELINE' # Some("preview")
        /\ ~snap_alive'
        /\ _ACTIVE_OWNER_PIPELINE' = None => _ACTIVE_CAMERA_TOKEN' = None

\* C35: on every return path of capture_preview_snapshot taken after its
\* acquire succeeded, the preview role does not hold the camera: the owner
\* record was cleared before the return
C35_SnapshotReleases == [][C35_Step]_vars

\* a snapshot came back without a frame after its last attempt, with
\* monitoring started meanwhile, and the camera is not owned by preview
C35_Witness ==
    /\ gui_ret.op = "capture_preview_snapshot"
    /\ ~gui_ret.ok
    /\ gui_arg.attempt > _PREVIEW_MAX_RETRIES
    /\ pc["gui"] = "idle"
    /\ runs > 0
    /\ _ACTIVE_OWNER_PIPELINE # Some("preview")


\* ------------------------------------------------------------------------
\* one owner record for all tokens
\* ------------------------------------------------------------------------
\* an acquire that returns while some (role, token) other than the caller's
\* own pair is recorded: it is refused and the record stays
C36_Step ==
    \A r \in Roles :
        ArbReturns(r, "acquire") =>
            LET e == ArbResult(r) IN
            (/\ _ACTIVE_OWNER_PIPELINE # None
             /\ OwnerRecord # <<Some(r), Some(e.token)>>)
                => /\ ~e.ok
                   /\ UNCHANGED OwnerRecord

\* the record names a role and a token together, or neither
OwnerRecordWhole == (_ACTIVE_OWNER_PIPELINE = None) <=> (_ACTIVE_CAMERA_TOKEN = None)

\* C36: the arbiter records one global owner, not one owner per token: while
\* any (role, token) is recorded, acquire fails for every other role and for
\* every other token, the same role asking for another token included.
C36_OneGlobalOwner == []OwnerRecordWhole /\ [][C36_Step]_vars

\* while r owns cam1, r itself was refused cam2 and the other role was
\* refused both cam1 and cam2
C36_Witness ==
    \E r \in Roles : \E o \in Roles \ {r} :
        /\ Len(arb_hist[r]) = 2 /\ Len(arb_hist[o]) = 2
        /\ arb_hist[r][1] = [op |-> "acquire", token |-> "cam1", ok |-> TRUE, reason |-> None]
        /\ arb_hist[r][2] = [op |-> "acquire", token |-> "cam2", ok |-> FALSE, reason |-> Some(r)]
        /\ arb_hist[o][1] = [op |-> "acquire", token |-> "cam1", ok |-> FALSE, reason |-> Some(r)]
        /\ arb_hist[o][2] = [op |-> "acquire", token |-> "cam2", ok |-> FALSE, reason |-> Some(r)]
        /\ OwnerRecord = <<Some(r), Some("cam1")>>


\* ------------------------------------------------------------------------
\* the owner record against the monitoring capture's registration
\* ------------------------------------------------------------------------
MonitoringOwns == _ACTIVE_OWNER_PIPELINE = Some("monitoring")

MonitoringRegistered == _GLOBAL_CAPTURE # None /\ _GLOBAL_USERS >= 1

\* C37: whenever no thread is inside _ensure_global_capture or
\* _release_global_capture (each call is one step here), the arbiter records
\* monitoring as owner if and only if a monitoring capture is registered
\* with user count at least 1.
C37_OwnerIffRegistered == MonitoringOwns <=> MonitoringRegistered

\* one direction alone: a registered capture has monitoring as owner
C37_RegisteredIsOwner == MonitoringRegistered => MonitoringOwns


\* ---------------------------------------------------------------------------
\* run(): the state it leaves behind when it returns
\* ---------------------------------------------------------------------------

\* run() returns after its finally block; the return at line 439, taken when
\* request_start was refused, does not pass through it
RunReturns == pc["mon"] = "resume" /\ pc'["mon"] = "idle"

C38_Step ==
    RunReturns => /\ svc_state' = "IDLE"
                  /\ ~monitoring_active'
                  /\ ~_PREVIEW_PAUSED_FOR_MONITORING'

\* FAILED is not a state run() leaves behind
NotRestingFailed == pc["mon"] = "idle" => svc_state # "FAILED"

\* C38: after run() returns on any path on which request_start succeeded,
\* the monitoring state is IDLE, app_state.monitoring_active is false and the
\* preview paused-for-monitoring flag is cleared; FAILED is never the resting
\* state.
C38_RunLeavesIdle == []NotRestingFailed /\ [][C38_Step]_vars


\* ------------------------------------------------------------------------
\* the three resource locks: no thread waits for ever
\* ------------------------------------------------------------------------
\* thread th is inside a call and its next step is not blocked
CanStep(th) ==
    /\ lk[th].prog # <<>>
    /\ Head(lk[th].prog).op = "acquire" => LockOf(Head(lk[th].prog).lock) = None

\* thread th waits for a lock that another thread holds
Blocked(th) == lk[th].prog # <<>> /\ ~CanStep(th)

\* a blocked thread waits for a thread that can go on
NoDeadlock ==
    \A th \in Threads :
        Blocked(th) => \E o \in Threads \ {th} :
                            /\ LockOf(Head(lk[th].prog).lock) = Some(o)
                            /\ CanStep(o)

\* C39: no interleaving of monitoring operations, preview operations and
\* arbiter calls deadlocks: the monitoring-capture lock and the
\* preview-capture lock are never held together, and the arbiter lock is
\* only ever taken innermost.
C39_NoDeadlock ==
    /\ NoDeadlock
    /\ \A th \in Threads :
        /\ ~({"_GLOBAL_LOCK", "_PREVIEW_LOCK"} \subseteq Held(th))
        /\ "_CAMERA_OWNER_LOCK" \in Held(th) =>
                /\ CanStep(th)
                /\ Head(lk[th].prog) = Release("_CAMERA_OWNER_LOCK")

\* one thread is inside _ensure_global_capture and inside the arbiter; the
\* other, in freeze_latest_global_frame, has left _PREVIEW_LOCK and waits
\* for _GLOBAL_LOCK
C39_Witness ==
    \E th \in Threads : \E o \in Threads \ {th} :
        /\ Held(th) = {"_GLOBAL_LOCK", "_CAMERA_OWNER_LOCK"}
        /\ Held(o) = {}
        /\ Blocked(o)
        /\ lk[o].prog = Within("_GLOBAL_LOCK", <<>>) \o Within("_GLOBAL_LOCK", <<>>)

====
